---- MODULE Spec2Model ----
(***************************************************************************)
(* Streaming-event reconciliation of the gateway chat channel.             *)
(*                                                                         *)
(* Server side (src/unnamed/part_000): the run link registry               *)
(* (createChatRunRegistry), the chat run state (createChatRunState) and    *)
(* the event router (createAgentEventHandler).                             *)
(* Client side (src/unnamed/part_001, lines 1-180): the reconciler         *)
(* handleChatEvent and sendChatMessage.                                    *)
(*                                                                         *)
(* Maps (Map<string, T>) are functions whose DOMAIN is the set of keys     *)
(* present.  "undefined" results of peek/shift/remove are the empty        *)
(* sequence, a found entry e is <<e>>.  Date.now() values carried by the   *)
(* router's payloads (ts, message.timestamp) and stored in abortedRuns are *)
(* never read by the code modelled here and are left out; abortedRuns is   *)
(* the key set of that map.                                                *)
(***************************************************************************)
EXTENDS Integers, Sequences, FiniteSets, TLC

\* ------------------------------------------------------------------ bounds
MaxEvents == 2         \* events the executor delivers in one behaviour of Spec
MaxSeqEvents == 3      \* events delivered in one behaviour of SpecSeq
MaxE2E == 5            \* events fed in the end-to-end specification
MaxTools == 2          \* tool-start notifications the client counts up to
MaxCards == 3          \* tool cards in one display group

\* ------------------------------------------------------------- value sets
None == "undefined"

RunIds == {"r1", "r2"}                 \* internal execution-run ids (evt.runId)
ClientRunIds == {"c1", "c2"}           \* client-chosen run ids (idempotency keys)
SessionKeys == {"s1", "s2"}
Texts == {"Hello", "Found it"}
ToolNames == {"search"}
ToolPhases == {"start", "update", "result"}
VerboseLevels == {"on", "off", None}

\* A RunLink
ChatRunEntry == [sessionKey : SessionKeys, clientRunId : ClientRunIds]

EmptyMap == [k \in {} |-> 0]

MapSet(m, k, v) == [x \in (DOMAIN m) \cup {k} |-> IF x = k THEN v ELSE m[x]]

MapDelete(m, k) == [x \in (DOMAIN m) \ {k} |-> m[x]]

MapGet(m, k, dflt) == IF k \in DOMAIN m THEN m[k] ELSE dflt

\* --------------------------------------------------------------- variables
VARIABLES
  chatRunSessions,      \* registry: context key -> queue of ChatRunEntry
  messageIndexByRun,    \* clientRunId -> current message index
  abortedRuns,          \* keys of the abort-marker map
  agentRunSeq,          \* evt.runId -> last seq seen
  sent,                 \* client run ids a send has queued so far
  broadcasts,           \* broadcast(...) calls of the last handler call, in order
  nodeSends,            \* nodeSendToSession(...) calls of the last handler call
  clearedRuns,          \* clearAgentRunContext(...) calls of the last handler call
  lastOp,               \* the operation performed last
  seqHist,              \* history: evt.runId -> seq values received, in order
  diagCount,            \* history: evt.runId -> "seq gap" diagnostics broadcast
  toolStarts,           \* history: clientRunId -> tool-start events seen in the run
  addOrder,             \* history: context key -> client run ids queued, in order
  finalOrder,           \* history: context key -> client run ids of the links finalized
  gone,                 \* history: context key -> client run ids shifted, removed or cleared
  sessionKey,           \* client: ChatState.sessionKey
  chatRunId,            \* client: ChatState.chatRunId
  chatStreamMessages,   \* client: ChatState.chatStreamMessages
  chatToolsRunning,     \* client: ChatState.chatToolsRunning
  chatCurrentTool,      \* client: ChatState.chatCurrentTool
  lastError,            \* client: ChatState.lastError
  evLog,                \* end-to-end: events fed to the router, in order
  chatLog,              \* end-to-end: chat notifications broadcast, in order
  chatSending,          \* client: ChatState.chatSending
  undropped,            \* history: chatStreamMessages had the transport dropped nothing
  dropStatus,           \* history: message index -> "dropped" | "healed"
  group,                \* display: MessageGroup.messages, each message as its tool cards
  pairedToolCards,      \* display: the cards of the last render of the group
  firstPaired,          \* history: the cards of the first render of the group
  groupAtFirst          \* history: the group as the first render found it

routerVars == <<chatRunSessions, messageIndexByRun, abortedRuns, agentRunSeq, sent>>
outVars == <<broadcasts, nodeSends, clearedRuns, lastOp>>
histVars == <<seqHist, diagCount, toolStarts, addOrder, finalOrder, gone>>
clientVars == <<sessionKey, chatRunId, chatStreamMessages, chatToolsRunning,
                chatCurrentTool, lastError>>
e2eVars == <<evLog, chatLog>>
dropVars == <<chatSending, undropped, dropStatus>>
pairVars == <<group, pairedToolCards, firstPaired, groupAtFirst>>
vars == <<routerVars, outVars, histVars, clientVars, e2eVars, dropVars, pairVars>>

\* ---------------------------------------------------------------- registry
\* faulty variant: the new link goes to the front of the queue
add_prepend(reg, sessionId, entry) ==
  IF sessionId \in DOMAIN reg
    THEN [reg EXCEPT ![sessionId] = <<entry>> \o @]
    ELSE MapSet(reg, sessionId, <<entry>>)

add(reg, sessionId, entry) ==
  IF sessionId \in DOMAIN reg
    THEN [reg EXCEPT ![sessionId] = Append(@, entry)]
    ELSE MapSet(reg, sessionId, <<entry>>)

peek(reg, sessionId) ==
  IF sessionId \in DOMAIN reg /\ Len(reg[sessionId]) > 0
    THEN <<reg[sessionId][1]>>
    ELSE <<>>

\* faulty variant: the newest entry is taken (queue.pop)
shift_newest(reg, sessionId) ==
  IF sessionId \notin DOMAIN reg \/ Len(reg[sessionId]) = 0
    THEN [registry |-> reg, entry |-> <<>>]
    ELSE LET queue == reg[sessionId]
             rest == SubSeq(queue, 1, Len(queue) - 1)
         IN [registry |-> IF Len(rest) = 0 THEN MapDelete(reg, sessionId)
                                            ELSE [reg EXCEPT ![sessionId] = rest],
             entry |-> <<queue[Len(queue)]>>]

\* shift: the registry afterwards and the entry returned
shift(reg, sessionId) ==
  IF sessionId \notin DOMAIN reg \/ Len(reg[sessionId]) = 0
    THEN [registry |-> reg, entry |-> <<>>]
    ELSE LET queue == reg[sessionId]
             rest == Tail(queue)
         IN [registry |-> IF Len(rest) = 0 THEN MapDelete(reg, sessionId)
                                            ELSE [reg EXCEPT ![sessionId] = rest],
             entry |-> <<Head(queue)>>]

\* faulty variant: the newest matching entry is found (findLastIndex)
findIndex_lastMatch(queue, clientRunId, sessKey) ==
  LET hits == {i \in 1..Len(queue) :
                 /\ queue[i].clientRunId = clientRunId
                 /\ (IF sessKey \notin {None, ""} THEN queue[i].sessionKey = sessKey ELSE TRUE)}
  IN IF hits = {} THEN 0 ELSE CHOOSE i \in hits : \A j \in hits : i >= j

\* queue.findIndex of remove: 0 when no entry matches (the code's -1); an
\* absent or empty sessionKey is not compared
findIndex(queue, clientRunId, sessKey) ==
  LET hits == {i \in 1..Len(queue) :
                 /\ queue[i].clientRunId = clientRunId
                 /\ (IF sessKey \notin {None, ""} THEN queue[i].sessionKey = sessKey ELSE TRUE)}
  IN IF hits = {} THEN 0 ELSE CHOOSE i \in hits : \A j \in hits : i <= j

\* queue.splice(idx, 1): the queue without its idx-th element
splice(queue, idx) ==
  [i \in 1..(Len(queue) - 1) |-> IF i < idx THEN queue[i] ELSE queue[i + 1]]

remove(reg, sessionId, clientRunId, sessKey) ==
  IF sessionId \notin DOMAIN reg \/ Len(reg[sessionId]) = 0
    THEN [registry |-> reg, entry |-> <<>>]
    ELSE LET queue == reg[sessionId]
             idx == findIndex(queue, clientRunId, sessKey)
         IN IF idx = 0
              THEN [registry |-> reg, entry |-> <<>>]
              ELSE LET rest == splice(queue, idx)
                   IN [registry |-> IF Len(rest) = 0 THEN MapDelete(reg, sessionId)
                                                      ELSE [reg EXCEPT ![sessionId] = rest],
                       entry |-> <<queue[idx]>>]

\* ---------------------------------------------------------- agent events
\* AgentEventPayload: runId, seq, stream and a data record whose fields depend
\* on the stream.
AssistantData(texts) == [text : texts]

ToolData == [phase : ToolPhases, name : ToolNames]

LifecycleData ==
  {[phase |-> "start"], [phase |-> "end"], [phase |-> "error"],
   [phase |-> "error", error |-> "boom"]}

\* the events of run runId carrying seq, with assistant texts drawn from texts
AgentEvents(runId, seq, texts) ==
  [runId : {runId}, seq : {seq}, stream : {"assistant"}, data : AssistantData(texts)]
    \cup [runId : {runId}, seq : {seq}, stream : {"tool"}, data : ToolData]
    \cup [runId : {runId}, seq : {seq}, stream : {"lifecycle"}, data : LifecycleData]

\* resolveSessionKeyForRun: the collateral resolver injected into the router.
\* r1 is a run whose session is known to it, r2 one it cannot resolve.
resolveSessionKeyForRun(runId) == IF runId = "r1" THEN "s1" ELSE None

\* formatForLog renders an error for the errorMessage field.
formatForLog(error) == IF error = "boom" THEN "Error: boom" ELSE "Error"

\* loadSessionEntry(sessionKey): throws, or yields the session entry's
\* verboseLevel and the configured default, both already normalised.
SessionLookups ==
  {[throws |-> TRUE, entry |-> None, dflt |-> None]}
    \cup [throws : {FALSE}, entry : VerboseLevels, dflt : VerboseLevels]

\* what the verbosity lookups of one handler call may yield; they are made
\* for tool events only (the && of skipDetailedToolBroadcast short-circuits)
verboseInputs(evt) ==
  IF evt.stream = "tool"
    THEN {[runVerbose |-> "on", lookup |-> [throws |-> TRUE, entry |-> None, dflt |-> None]],
          [runVerbose |-> None, lookup |-> [throws |-> TRUE, entry |-> None, dflt |-> None]],
          [runVerbose |-> None, lookup |-> [throws |-> FALSE, entry |-> None, dflt |-> "on"]],
          [runVerbose |-> None, lookup |-> [throws |-> FALSE, entry |-> "off", dflt |-> "on"]]}
    ELSE {[runVerbose |-> None, lookup |-> [throws |-> TRUE, entry |-> None, dflt |-> None]]}

shouldEmitToolEvents(runVerbose, sessKey, lookup) ==
  IF runVerbose # None THEN runVerbose = "on"
  ELSE IF sessKey = None THEN FALSE
  ELSE IF lookup.throws THEN FALSE
  ELSE IF lookup.entry # None THEN lookup.entry = "on"
  ELSE lookup.dflt = "on"

\* ------------------------------------------------------------ the emitters
\* Each yields the message-index map afterwards and the calls made, in order.
chatCalls(idx, sessKey, payload, drop) ==
  [messageIndexByRun |-> idx,
   broadcasts |-> <<[event |-> "chat", payload |-> payload, dropIfSlow |-> drop]>>,
   nodeSends |-> <<[sessionKey |-> sessKey, event |-> "chat", payload |-> payload]>>]

\* faulty variant: the tool-start does not advance the message index
emitToolEvent_noIncrement(idx, sessKey, clientRunId, seq, phase, toolName) ==
  chatCalls(idx, sessKey,
            [runId |-> clientRunId, sessionKey |-> sessKey, seq |-> seq,
             state |-> IF phase = "start" THEN "tool-start" ELSE "tool-end",
             tool |-> [name |-> toolName]], FALSE)

\* faulty variant: the tool markers are tagged droppable like the deltas
emitToolEvent_droppable(idx, sessKey, clientRunId, seq, phase, toolName) ==
  chatCalls(IF phase = "start"
              THEN MapSet(idx, clientRunId, MapGet(idx, clientRunId, 0) + 1) ELSE idx,
            sessKey,
            [runId |-> clientRunId, sessionKey |-> sessKey, seq |-> seq,
             state |-> IF phase = "start" THEN "tool-start" ELSE "tool-end",
             tool |-> [name |-> toolName]], TRUE)

\* faulty variant: every tool marker advances the message index, not only the start
emitToolEvent_anyPhase(idx, sessKey, clientRunId, seq, phase, toolName) ==
  chatCalls(MapSet(idx, clientRunId, MapGet(idx, clientRunId, 0) + 1), sessKey,
            [runId |-> clientRunId, sessionKey |-> sessKey, seq |-> seq,
             state |-> IF phase = "start" THEN "tool-start" ELSE "tool-end",
             tool |-> [name |-> toolName]], FALSE)

\* faulty variant: one counter for all runs
emitToolEvent_sharedCounter(idx, sessKey, clientRunId, seq, phase, toolName) ==
  LET idx1 == IF phase = "start"
                THEN [k \in DOMAIN idx \cup {clientRunId} |-> MapGet(idx, k, 0) + 1]
                ELSE idx
      payload == [runId |-> clientRunId, sessionKey |-> sessKey, seq |-> seq,
                  state |-> IF phase = "start" THEN "tool-start" ELSE "tool-end",
                  tool |-> [name |-> toolName]]
  IN chatCalls(idx1, sessKey, payload, FALSE)

emitToolEvent(idx, sessKey, clientRunId, seq, phase, toolName) ==
  LET idx1 == IF phase = "start"
                THEN MapSet(idx, clientRunId, MapGet(idx, clientRunId, 0) + 1)
                ELSE idx
      payload == [runId |-> clientRunId, sessionKey |-> sessKey, seq |-> seq,
                  state |-> IF phase = "start" THEN "tool-start" ELSE "tool-end",
                  tool |-> [name |-> toolName]]
  IN chatCalls(idx1, sessKey, payload, FALSE)

\* faulty variant: the delta is numbered by the event's seq, not by the run's index
emitChatDelta_seqAsIndex(idx, sessKey, clientRunId, seq, text) ==
  chatCalls(IF clientRunId \notin DOMAIN idx THEN MapSet(idx, clientRunId, 0) ELSE idx,
            sessKey,
            [runId |-> clientRunId, sessionKey |-> sessKey, seq |-> seq,
             state |-> "delta", messageIndex |-> seq,
             message |-> [role |-> "assistant",
                          content |-> <<[type |-> "text", text |-> text]>>]], TRUE)

emitChatDelta(idx, sessKey, clientRunId, seq, text) ==
  LET messageIndex == MapGet(idx, clientRunId, 0)
      idx1 == IF clientRunId \notin DOMAIN idx THEN MapSet(idx, clientRunId, 0) ELSE idx
      payload == [runId |-> clientRunId, sessionKey |-> sessKey, seq |-> seq,
                  state |-> "delta", messageIndex |-> messageIndex,
                  message |-> [role |-> "assistant",
                               content |-> <<[type |-> "text", text |-> text]>>]]
  IN chatCalls(idx1, sessKey, payload, TRUE)

\* faulty variant: the run's message index survives its terminal notification
emitChatFinal_keepIndex(idx, sessKey, clientRunId, seq, jobState, error) ==
  IF jobState = "done"
    THEN chatCalls(idx, sessKey,
                   [runId |-> clientRunId, sessionKey |-> sessKey, seq |-> seq,
                    state |-> "final"], FALSE)
    ELSE chatCalls(idx, sessKey,
                   [runId |-> clientRunId, sessionKey |-> sessKey, seq |-> seq,
                    state |-> "error",
                    errorMessage |-> IF error # None THEN formatForLog(error)
                                                      ELSE None], FALSE)

\* faulty variant: a failed run is reported as final
emitChatFinal_alwaysFinal(idx, sessKey, clientRunId, seq, jobState, error) ==
  chatCalls(MapDelete(idx, clientRunId), sessKey,
            [runId |-> clientRunId, sessionKey |-> sessKey, seq |-> seq,
             state |-> "final"], FALSE)

emitChatFinal(idx, sessKey, clientRunId, seq, jobState, error) ==
  LET idx1 == MapDelete(idx, clientRunId)
  IN IF jobState = "done"
       THEN chatCalls(idx1, sessKey,
                      [runId |-> clientRunId, sessionKey |-> sessKey, seq |-> seq,
                       state |-> "final"], FALSE)
       ELSE chatCalls(idx1, sessKey,
                      [runId |-> clientRunId, sessionKey |-> sessKey, seq |-> seq,
                       state |-> "error",
                       errorMessage |-> IF error # None THEN formatForLog(error)
                                                         ELSE None], FALSE)

\* ------------------------------------------------------------- the router
\* faulty variant: any marker suppresses every run
isAborted_anyMarker(ab, clientRunId, runId) == ab # {}

\* faulty variant: the marker is looked up under the client run id only
isAborted_clientOnly(ab, clientRunId, runId) == clientRunId \in ab

isAborted(ab, clientRunId, runId) == clientRunId \in ab \/ runId \in ab

\* faulty variant: only a skip ahead counts as a gap
seqGap_skipAheadOnly(last, seq) == seq > last + 1

seqGap(last, seq) == seq # last + 1

lifecyclePhase(evt) ==
  IF evt.stream = "lifecycle" /\ "phase" \in DOMAIN evt.data THEN evt.data.phase ELSE None

isTerminal(evt) == lifecyclePhase(evt) \in {"end", "error"}

dataError(evt) == IF "error" \in DOMAIN evt.data THEN evt.data.error ELSE None

\* the link, session key and client run id an event is attributed to
\* (the first three statements of the handler)
resolveRun(reg, evt) ==
  LET chatLink == peek(reg, evt.runId)
  IN [chatLink |-> chatLink,
      sessionKey |-> IF chatLink # <<>> THEN chatLink[1].sessionKey
                                        ELSE resolveSessionKeyForRun(evt.runId),
      clientRunId |-> IF chatLink # <<>> THEN chatLink[1].clientRunId ELSE evt.runId]

\* the "seq gap" diagnostic broadcast on the agent channel
gapDiagnostic(evt, sessKey, last) ==
  [event |-> "agent",
   payload |-> [runId |-> evt.runId, stream |-> "error", sessionKey |-> sessKey,
                data |-> [reason |-> "seq gap", expected |-> last + 1,
                          received |-> evt.seq]],
   dropIfSlow |-> FALSE]

agentPayloadOf(evt, sessKey) ==
  IF sessKey # None
    THEN [runId |-> evt.runId, seq |-> evt.seq, stream |-> evt.stream,
          data |-> evt.data, sessionKey |-> sessKey]
    ELSE evt

\* what the handler leaves behind when it emits nothing on the chat channel
quietResult(reg, idx, ab) ==
  [registry |-> reg, messageIndexByRun |-> idx, abortedRuns |-> ab,
   broadcasts |-> <<>>, nodeSends |-> <<>>, returned |-> FALSE, finished |-> <<>>]

\* the terminal event of a run that is not aborted
finishRun(reg, idx, ab, evt, run) ==
  LET job == IF lifecyclePhase(evt) = "error" THEN "error" ELSE "done"
  IN IF run.chatLink # <<>>
       THEN LET s == shift(reg, evt.runId)
            IN IF s.entry = <<>>
                 THEN [quietResult(s.registry, idx, ab) EXCEPT !.returned = TRUE]
                 ELSE LET e == emitChatFinal(idx, s.entry[1].sessionKey,
                                             s.entry[1].clientRunId, evt.seq, job,
                                             dataError(evt))
                      IN [quietResult(s.registry, e.messageIndexByRun, ab) EXCEPT
                            !.broadcasts = e.broadcasts, !.nodeSends = e.nodeSends,
                            !.finished = s.entry]
       ELSE LET e == emitChatFinal(idx, run.sessionKey, evt.runId, evt.seq, job,
                                   dataError(evt))
            IN [quietResult(reg, e.messageIndexByRun, ab) EXCEPT
                  !.broadcasts = e.broadcasts, !.nodeSends = e.nodeSends]

\* faulty variant: the marker under the internal run id is left behind
abortedCleanup_clientMarkerOnly(reg, idx, ab, evt, run) ==
  LET r == IF run.chatLink # <<>>
             THEN remove(reg, evt.runId, run.clientRunId, run.sessionKey)
             ELSE [registry |-> reg, entry |-> <<>>]
  IN [quietResult(r.registry, MapDelete(idx, run.clientRunId),
                  ab \ {run.clientRunId}) EXCEPT !.finished = r.entry]

\* the terminal event of an aborted run: cleanup only
abortedCleanup(reg, idx, ab, evt, run) ==
  LET r == IF run.chatLink # <<>>
             THEN remove(reg, evt.runId, run.clientRunId, run.sessionKey)
             ELSE [registry |-> reg, entry |-> <<>>]
  IN [quietResult(r.registry, MapDelete(idx, run.clientRunId),
                  (ab \ {run.clientRunId}) \ {evt.runId}) EXCEPT !.finished = r.entry]

\* the classification under "if (sessionKey)": the chat-channel part
classify(reg, idx, ab, evt, run, aborted) ==
  LET phase == lifecyclePhase(evt)
  IN IF ~aborted /\ evt.stream = "assistant" /\ "text" \in DOMAIN evt.data THEN
       LET e == emitChatDelta(idx, run.sessionKey, run.clientRunId, evt.seq, evt.data.text)
       IN [quietResult(reg, e.messageIndexByRun, ab) EXCEPT
             !.broadcasts = e.broadcasts, !.nodeSends = e.nodeSends]
     ELSE IF ~aborted /\ evt.stream = "tool"
             /\ "phase" \in DOMAIN evt.data /\ "name" \in DOMAIN evt.data THEN
       IF evt.data.phase \in {"start", "result"}
         THEN LET e == emitToolEvent(idx, run.sessionKey, run.clientRunId, evt.seq,
                                     IF evt.data.phase = "start" THEN "start" ELSE "end",
                                     evt.data.name)
              IN [quietResult(reg, e.messageIndexByRun, ab) EXCEPT
                    !.broadcasts = e.broadcasts, !.nodeSends = e.nodeSends]
         ELSE quietResult(reg, idx, ab)
     ELSE IF ~aborted /\ phase \in {"end", "error"} THEN finishRun(reg, idx, ab, evt, run)
     ELSE IF aborted /\ phase \in {"end", "error"} THEN abortedCleanup(reg, idx, ab, evt, run)
     ELSE quietResult(reg, idx, ab)

\* faulty variant: the received seq is not recorded
recordSeq_notRecorded(seqs, evt) == seqs

\* agentRunSeq.set(evt.runId, evt.seq)
recordSeq(seqs, evt) == MapSet(seqs, evt.runId, evt.seq)

\* faulty variant: the context is released inside "if (sessionKey)" only
clearContextCalls_resolvedOnly(evt, sessKey, returned) ==
  IF sessKey # None /\ isTerminal(evt) THEN <<evt.runId>> ELSE <<>>

\* the calls of clearAgentRunContext: before the early return of a terminal
\* event whose link could not be shifted, or at the end of the handler
clearContextCalls(evt, sessKey, returned) ==
  IF returned THEN <<evt.runId>>
  ELSE IF isTerminal(evt) THEN <<evt.runId>>
  ELSE <<>>

\* faulty variant: a tool event whose detailed broadcast is skipped is not
\* processed for the chat channel either (a return in the skip branch)
agentEventHandler_returnWhenQuiet(reg, idx, ab, seqs, evt, runVerbose, lookup) ==
  LET run == resolveRun(reg, evt)
      sessKey == run.sessionKey
      aborted == isAborted(ab, run.clientRunId, evt.runId)
      agentPayload == agentPayloadOf(evt, sessKey)
      last == MapGet(seqs, evt.runId, 0)
      skipDetailedToolBroadcast ==
        evt.stream = "tool" /\ ~shouldEmitToolEvents(runVerbose, sessKey, lookup)
      diag == IF seqGap(last, evt.seq) THEN <<gapDiagnostic(evt, sessKey, last)>> ELSE <<>>
      raw == IF ~skipDetailedToolBroadcast
               THEN <<[event |-> "agent", payload |-> agentPayload, dropIfSlow |-> FALSE]>>
               ELSE <<>>
      rawNode == IF sessKey # None /\ ~skipDetailedToolBroadcast
                   THEN <<[sessionKey |-> sessKey, event |-> "agent",
                           payload |-> agentPayload]>>
                   ELSE <<>>
      c == IF sessKey # None /\ ~skipDetailedToolBroadcast
             THEN classify(reg, idx, ab, evt, run, aborted)
             ELSE quietResult(reg, idx, ab)
  IN [registry |-> c.registry,
      messageIndexByRun |-> c.messageIndexByRun,
      abortedRuns |-> c.abortedRuns,
      agentRunSeq |-> recordSeq(seqs, evt),
      broadcasts |-> diag \o raw \o c.broadcasts,
      nodeSends |-> rawNode \o c.nodeSends,
      clearedRuns |-> clearContextCalls(evt, sessKey, c.returned),
      finished |-> c.finished]

\* One call of the handler returned by createAgentEventHandler.  runVerbose is
\* the verboseLevel of getAgentRunContext(evt.runId), lookup the outcome of
\* loadSessionEntry.  Yields the state afterwards and the calls made.
agentEventHandler(reg, idx, ab, seqs, evt, runVerbose, lookup) ==
  LET run == resolveRun(reg, evt)
      sessKey == run.sessionKey
      aborted == isAborted(ab, run.clientRunId, evt.runId)
      agentPayload == agentPayloadOf(evt, sessKey)
      last == MapGet(seqs, evt.runId, 0)
      skipDetailedToolBroadcast ==
        evt.stream = "tool" /\ ~shouldEmitToolEvents(runVerbose, sessKey, lookup)
      diag == IF seqGap(last, evt.seq) THEN <<gapDiagnostic(evt, sessKey, last)>> ELSE <<>>
      raw == IF ~skipDetailedToolBroadcast
               THEN <<[event |-> "agent", payload |-> agentPayload, dropIfSlow |-> FALSE]>>
               ELSE <<>>
      rawNode == IF sessKey # None /\ ~skipDetailedToolBroadcast
                   THEN <<[sessionKey |-> sessKey, event |-> "agent",
                           payload |-> agentPayload]>>
                   ELSE <<>>
      c == IF sessKey # None
             THEN classify(reg, idx, ab, evt, run, aborted)
             ELSE quietResult(reg, idx, ab)
  IN [registry |-> c.registry,
      messageIndexByRun |-> c.messageIndexByRun,
      abortedRuns |-> c.abortedRuns,
      agentRunSeq |-> recordSeq(seqs, evt),
      broadcasts |-> diag \o raw \o c.broadcasts,
      nodeSends |-> rawNode \o c.nodeSends,
      clearedRuns |-> clearContextCalls(evt, sessKey, c.returned),
      finished |-> c.finished]

\* ------------------------------------------------------ client reconciler
\* extractText(payload.message): the text of the message, None when the
\* notification carries no message or the message no text item.
extractText(payload) ==
  IF "message" \notin DOMAIN payload THEN None
  ELSE IF "content" \notin DOMAIN payload.message THEN None
  ELSE IF Len(payload.message.content) = 0 THEN None
  ELSE payload.message.content[1].text

\* Array.prototype.sort((a, b) => a.index - b.index): stable, by index
RECURSIVE sortByIndex(_)
sortByIndex(msgs) ==
  IF Len(msgs) <= 1 THEN msgs
  ELSE LET front == sortByIndex(SubSeq(msgs, 1, Len(msgs) - 1))
           x == msgs[Len(msgs)]
           keep == {i \in 1..Len(front) : front[i].index <= x.index}
           n == Cardinality(keep)
       IN SubSeq(front, 1, n) \o <<x>> \o SubSeq(front, n + 1, Len(front))

\* faulty variant: the text of a delta is appended to the message's text
applyDelta_appendText(msgs, payload, now) ==
  LET text == extractText(payload)
  IN IF text = None THEN msgs
     ELSE LET messageIndex == IF "messageIndex" \in DOMAIN payload
                                THEN payload.messageIndex ELSE 0
              found == {i \in 1..Len(msgs) : msgs[i].index = messageIndex}
          IN IF found # {}
               THEN LET i == CHOOSE j \in found : \A k \in found : j <= k
                    IN [msgs EXCEPT ![i].text = @ \o text]
               ELSE sortByIndex(Append(msgs, [index |-> messageIndex, text |-> text,
                                              startedAt |-> now]))

\* faulty variant: a new message is put at the end, unsorted
applyDelta_noSort(msgs, payload, now) ==
  LET text == extractText(payload)
  IN IF text = None THEN msgs
     ELSE LET messageIndex == IF "messageIndex" \in DOMAIN payload
                                THEN payload.messageIndex ELSE 0
              found == {i \in 1..Len(msgs) : msgs[i].index = messageIndex}
          IN IF found # {}
               THEN LET i == CHOOSE j \in found : \A k \in found : j <= k
                    IN [msgs EXCEPT ![i].text = text]
               ELSE Append(msgs, [index |-> messageIndex, text |-> text,
                                  startedAt |-> now])

\* faulty variant: every delta adds a message, also for an index already there
applyDelta_alwaysInsert(msgs, payload, now) ==
  LET text == extractText(payload)
  IN IF text = None THEN msgs
     ELSE sortByIndex(Append(msgs, [index |-> IF "messageIndex" \in DOMAIN payload
                                                THEN payload.messageIndex ELSE 0,
                                    text |-> text, startedAt |-> now]))

\* faulty variant: a delta without messageIndex is skipped
applyDelta_requireIndex(msgs, payload, now) ==
  LET text == extractText(payload)
  IN IF text = None \/ "messageIndex" \notin DOMAIN payload THEN msgs
     ELSE LET messageIndex == payload.messageIndex
              found == {i \in 1..Len(msgs) : msgs[i].index = messageIndex}
          IN IF found # {}
               THEN LET i == CHOOSE j \in found : \A k \in found : j <= k
                    IN [msgs EXCEPT ![i].text = text]
               ELSE sortByIndex(Append(msgs, [index |-> messageIndex, text |-> text,
                                              startedAt |-> now]))

\* the delta branch of handleChatEvent
applyDelta(msgs, payload, now) ==
  LET text == extractText(payload)
  IN IF text = None THEN msgs
     ELSE LET messageIndex == IF "messageIndex" \in DOMAIN payload
                                THEN payload.messageIndex ELSE 0
              found == {i \in 1..Len(msgs) : msgs[i].index = messageIndex}
          IN IF found # {}
               THEN LET i == CHOOSE j \in found : \A k \in found : j <= k
                    IN [msgs EXCEPT ![i].text = text]
               ELSE sortByIndex(Append(msgs, [index |-> messageIndex, text |-> text,
                                              startedAt |-> now]))

\* faulty variant: a notification of another session is let through
ignored_anySession(st, payload) ==
  payload.runId # "" /\ st.chatRunId # None /\ payload.runId # st.chatRunId

\* the guard of handleChatEvent: the notification is of another session, or
\* names a run (a run id that is not falsy) other than the active one
ignored(st, payload) ==
  \/ payload.sessionKey # st.sessionKey
  \/ payload.runId # "" /\ st.chatRunId # None /\ payload.runId # st.chatRunId

\* the tool-start branch
toolStarted(st, payload) ==
  [st EXCEPT !.chatToolsRunning = @ + 1,
             !.chatCurrentTool = IF "tool" \in DOMAIN payload THEN payload.tool.name
                                                             ELSE None]

\* faulty variant: the counter is decremented without a floor
toolEnded_noFloor(st) ==
  [st EXCEPT !.chatToolsRunning = @ - 1,
             !.chatCurrentTool = IF st.chatToolsRunning - 1 = 0 THEN None ELSE @]

\* the tool-end branch
toolEnded(st) ==
  LET n == IF st.chatToolsRunning - 1 > 0 THEN st.chatToolsRunning - 1 ELSE 0
  IN [st EXCEPT !.chatToolsRunning = n,
                !.chatCurrentTool = IF n = 0 THEN None ELSE @]

\* the final branch
onFinal(st) ==
  [st EXCEPT !.chatStreamMessages = <<>>, !.chatRunId = None,
             !.chatToolsRunning = 0, !.chatCurrentTool = None]

\* faulty variant: the cancelled run stays the active one
onAborted_keepRun(st) ==
  [st EXCEPT !.chatStreamMessages = <<>>,
             !.chatToolsRunning = 0, !.chatCurrentTool = None]

\* the aborted branch
onAborted(st) ==
  [st EXCEPT !.chatStreamMessages = <<>>, !.chatRunId = None,
             !.chatToolsRunning = 0, !.chatCurrentTool = None]

\* the error branch
onError(st, payload) ==
  [st EXCEPT !.chatStreamMessages = <<>>, !.chatRunId = None,
             !.chatToolsRunning = 0, !.chatCurrentTool = None,
             !.lastError = IF "errorMessage" \in DOMAIN payload
                              /\ payload.errorMessage # None
                             THEN payload.errorMessage ELSE "chat error"]

\* handleChatEvent(state, payload): the ChatState afterwards
handleChatEvent(st, payload, now) ==
  IF ignored(st, payload) THEN st
  ELSE IF payload.state = "delta" THEN
    [st EXCEPT !.chatStreamMessages = applyDelta(@, payload, now)]
  ELSE IF payload.state = "tool-start" THEN toolStarted(st, payload)
  ELSE IF payload.state = "tool-end" THEN toolEnded(st)
  ELSE IF payload.state = "final" THEN onFinal(st)
  ELSE IF payload.state = "aborted" THEN onAborted(st)
  ELSE IF payload.state = "error" THEN onError(st, payload)
  ELSE st

clientState ==
  [sessionKey |-> sessionKey, chatRunId |-> chatRunId,
   chatStreamMessages |-> chatStreamMessages, chatToolsRunning |-> chatToolsRunning,
   chatCurrentTool |-> chatCurrentTool, lastError |-> lastError]

setClient(st) ==
  /\ sessionKey' = st.sessionKey
  /\ chatRunId' = st.chatRunId
  /\ chatStreamMessages' = st.chatStreamMessages
  /\ chatToolsRunning' = st.chatToolsRunning
  /\ chatCurrentTool' = st.chatCurrentTool
  /\ lastError' = st.lastError

\* ------------------------------------------------------------ observation
isChat(b) == b.event = "chat"

isGapDiag(b) == b.event = "agent" /\ b.payload.stream = "error"

\* the chat notifications among a sequence of broadcast calls, in order
RECURSIVE chatPayloads(_)
chatPayloads(calls) ==
  IF calls = <<>> THEN <<>>
  ELSE (IF isChat(Head(calls)) THEN <<Head(calls).payload>> ELSE <<>>)
         \o chatPayloads(Tail(calls))

gapDiags(calls) == {i \in 1..Len(calls) : isGapDiag(calls[i])}

noRun == [chatLink |-> <<>>, sessionKey |-> None, clientRunId |-> None]

idleOp(name) == [op |-> name, evt |-> <<>>, run |-> noRun, aborted |-> FALSE]

idleClient ==
  /\ sessionKey = "s1"
  /\ chatRunId = None
  /\ chatStreamMessages = <<>>
  /\ chatToolsRunning = 0
  /\ chatCurrentTool = None
  /\ lastError = None

\* -------------------------------------------------------------------- Init
\* createChatRunState() and an empty agentRunSeq map; nothing emitted yet.
InitRouter ==
  /\ chatRunSessions = EmptyMap
  /\ messageIndexByRun = EmptyMap
  /\ abortedRuns = {}
  /\ agentRunSeq = EmptyMap
  /\ sent = {}
  /\ broadcasts = <<>>
  /\ nodeSends = <<>>
  /\ clearedRuns = <<>>
  /\ lastOp = idleOp("init")
  /\ seqHist = [r \in RunIds |-> <<>>]
  /\ diagCount = [r \in RunIds |-> 0]
  /\ toolStarts = EmptyMap
  /\ addOrder = [r \in RunIds |-> <<>>]
  /\ finalOrder = [r \in RunIds |-> <<>>]
  /\ gone = [r \in RunIds |-> {}]

\* no send in flight, nothing dropped
InitDrop ==
  /\ chatSending = FALSE
  /\ undropped = <<>>
  /\ dropStatus = EmptyMap

\* no group rendered yet
InitPair ==
  /\ group = <<>>
  /\ pairedToolCards = <<>>
  /\ firstPaired = <<>>
  /\ groupAtFirst = <<>>

Init ==
  /\ InitRouter
  /\ InitDrop
  /\ InitPair
  /\ idleClient
  /\ evLog = <<>>
  /\ chatLog = <<>>

\* ----------------------------------------------------------------- actions
quietOut(name) ==
  /\ broadcasts' = <<>>
  /\ nodeSends' = <<>>
  /\ clearedRuns' = <<>>
  /\ lastOp' = idleOp(name)

\* the sends a client may issue: the context that serves the run, the session
\* and the client run id (a fresh UUID, so each is queued once)
SendRequests ==
  {[sessionId |-> "r1", sessionKey |-> "s2", clientRunId |-> "c1"],
   [sessionId |-> "r1", sessionKey |-> "s1", clientRunId |-> "c2"]}

\* chatRunState.registry.add(sessionId, {sessionKey, clientRunId}) by a send
Add(sessionId, sessKey, clientRunId) ==
  /\ clientRunId \notin sent
  /\ chatRunSessions' = add(chatRunSessions, sessionId,
                            [sessionKey |-> sessKey, clientRunId |-> clientRunId])
  /\ sent' = sent \cup {clientRunId}
  /\ addOrder' = [addOrder EXCEPT ![sessionId] = Append(@, clientRunId)]
  /\ quietOut("call")
  /\ UNCHANGED <<messageIndexByRun, abortedRuns, agentRunSeq>>
  /\ UNCHANGED <<seqHist, diagCount, toolStarts, finalOrder, gone>>
  /\ UNCHANGED <<clientVars, e2eVars, dropVars, pairVars>>

\* the ids a cancellation request may name: the client run id of a send, or
\* the internal id of the context that serves it
AbortIds == {"c1", "r1"}

\* the runs a cancellation can name: those that were sent
abortable == sent \cup {k \in RunIds : addOrder[k] # <<>>}

\* chatRunState.abortedRuns.set(runId, Date.now()) by a cancellation request
Abort(runId) ==
  /\ runId \in abortable
  /\ runId \notin abortedRuns
  /\ abortedRuns' = abortedRuns \cup {runId}
  /\ quietOut("call")
  /\ UNCHANGED <<chatRunSessions, messageIndexByRun, agentRunSeq, sent>>
  /\ UNCHANGED <<histVars, clientVars, e2eVars, dropVars, pairVars>>

\* chatRunState.registry.remove(sessionId, clientRunId, sessionKey?) by the
\* cleanup of a cancelled run
Remove(sessionId, clientRunId, sessKey) ==
  LET r == remove(chatRunSessions, sessionId, clientRunId, sessKey)
  IN /\ r.entry # <<>>
     /\ chatRunSessions' = r.registry
     /\ gone' = [gone EXCEPT ![sessionId] = @ \cup {r.entry[1].clientRunId}]
     /\ quietOut("call")
     /\ UNCHANGED <<messageIndexByRun, abortedRuns, agentRunSeq, sent>>
     /\ UNCHANGED <<seqHist, diagCount, toolStarts, addOrder, finalOrder>>
     /\ UNCHANGED <<clientVars, e2eVars, dropVars, pairVars>>

queued(reg, k) ==
  IF k \in DOMAIN reg THEN {reg[k][i].clientRunId : i \in 1..Len(reg[k])} ELSE {}

\* registry.clear(): chatRunSessions.clear()
registryClear(reg) == EmptyMap

\* faulty variant: the abort markers survive the reset
clear_keepMarkers(reg, idx, ab) ==
  [registry |-> registryClear(reg), messageIndexByRun |-> EmptyMap, abortedRuns |-> ab]

\* ChatRunState.clear(): the three stores afterwards
clear(reg, idx, ab) ==
  [registry |-> registryClear(reg), messageIndexByRun |-> EmptyMap, abortedRuns |-> {}]

\* the number of links queued under any key
linkCount(reg) ==
  Cardinality(UNION {{<<k, i>> : i \in 1..Len(reg[k])} : k \in DOMAIN reg})

\* chatRunState.clear(): the hot-restart reset; no run survives it
Clear ==
  LET c == clear(chatRunSessions, messageIndexByRun, abortedRuns)
  IN /\ chatRunSessions' = c.registry
     /\ messageIndexByRun' = c.messageIndexByRun
     /\ abortedRuns' = c.abortedRuns
     /\ toolStarts' = EmptyMap
     /\ gone' = [r \in RunIds |-> gone[r] \cup queued(chatRunSessions, r)]
     /\ broadcasts' = <<>>
     /\ nodeSends' = <<>>
     /\ clearedRuns' = <<>>
     /\ lastOp' = [op |-> "clear",
                   wiped |-> [links |-> linkCount(chatRunSessions),
                              indexes |-> Cardinality(DOMAIN messageIndexByRun),
                              markers |-> Cardinality(abortedRuns)]]
     /\ UNCHANGED <<agentRunSeq, sent, seqHist, diagCount, addOrder, finalOrder>>
     /\ UNCHANGED <<clientVars, e2eVars, dropVars, pairVars>>

\* the history kept next to one handler call
recordEvent(evt, res) ==
  LET run == resolveRun(chatRunSessions, evt)
      c == run.clientRunId
      marked == c \in abortedRuns \/ evt.runId \in abortedRuns
      viaLink == res.finished # <<>> /\ chatPayloads(res.broadcasts) # <<>>
  IN /\ lastOp' = [op |-> "event", evt |-> <<evt>>, run |-> run, aborted |-> marked]
     /\ seqHist' = [seqHist EXCEPT ![evt.runId] = Append(@, evt.seq)]
     /\ diagCount' = [diagCount EXCEPT
                        ![evt.runId] = @ + Cardinality(gapDiags(res.broadcasts))]
     /\ toolStarts' =
          IF isTerminal(evt) THEN MapDelete(toolStarts, c)
          ELSE IF evt.stream = "tool" /\ evt.data.phase = "start"
            THEN MapSet(toolStarts, c, MapGet(toolStarts, c, 0) + 1)
          ELSE toolStarts
     /\ finalOrder' = IF viaLink
                        THEN [finalOrder EXCEPT
                                ![evt.runId] = Append(@, res.finished[1].clientRunId)]
                        ELSE finalOrder
     /\ gone' = IF res.finished # <<>>
                  THEN [gone EXCEPT ![evt.runId] = @ \cup {res.finished[1].clientRunId}]
                  ELSE gone
     /\ UNCHANGED addOrder

\* one call of the handler on evt: the router's state, the calls it made and
\* the history
routeEvent(evt, runVerbose, lookup) ==
  LET res == agentEventHandler(chatRunSessions, messageIndexByRun, abortedRuns,
                               agentRunSeq, evt, runVerbose, lookup)
  IN /\ chatRunSessions' = res.registry
     /\ messageIndexByRun' = res.messageIndexByRun
     /\ abortedRuns' = res.abortedRuns
     /\ agentRunSeq' = res.agentRunSeq
     /\ broadcasts' = res.broadcasts
     /\ nodeSends' = res.nodeSends
     /\ clearedRuns' = res.clearedRuns
     /\ recordEvent(evt, res)
     /\ UNCHANGED sent

\* the executor delivers evt; the handler runs to completion
HandleEvent(evt, runVerbose, lookup) ==
  /\ routeEvent(evt, runVerbose, lookup)
  /\ UNCHANGED <<clientVars, e2eVars, dropVars, pairVars>>

\* events handled so far
delivered == Len(seqHist["r1"]) + Len(seqHist["r2"])

\* the executor delivers the next event of run r, numbered consecutively
Deliver(r) ==
  LET q == MapGet(agentRunSeq, r, 0) + 1
  IN /\ delivered < MaxEvents
     /\ \E evt \in AgentEvents(r, q, {"Hello"}) : \E vi \in verboseInputs(evt) :
          HandleEvent(evt, vi.runVerbose, vi.lookup)

Next ==
  \/ \E l \in SendRequests : Add(l.sessionId, l.sessionKey, l.clientRunId)
  \/ \E id \in AbortIds : Abort(id)
  \/ \E k \in RunIds, c \in ClientRunIds, s \in SessionKeys \cup {None} : Remove(k, c, s)
  \/ Clear
  \/ \E r \in RunIds : Deliver(r)

Spec == Init /\ [][Next]_vars

\* ------------------------------------------- the sequence guard: SpecSeq
\* The executor's numbering under loss, duplication and restart: the seq an
\* event of a run may carry after last.
seqChoices(last) == {last + 1, last + 2, 1} \cup (IF last > 0 THEN {last} ELSE {})

\* the events delivered under it: one of each stream
SeqEvents(r, q) ==
  {[runId |-> r, seq |-> q, stream |-> "assistant", data |-> [text |-> "Hello"]],
   [runId |-> r, seq |-> q, stream |-> "tool",
    data |-> [phase |-> "start", name |-> "search"]],
   [runId |-> r, seq |-> q, stream |-> "lifecycle", data |-> [phase |-> "end"]]}

DeliverAny(r) ==
  /\ delivered < MaxSeqEvents
  /\ \E q \in seqChoices(MapGet(agentRunSeq, r, 0)) :
       \E evt \in SeqEvents(r, q) : \E vi \in verboseInputs(evt) :
         HandleEvent(evt, vi.runVerbose, vi.lookup)

NextSeq ==
  \/ Add("r1", "s2", "c1")
  \/ Abort("c1")
  \/ DeliverAny("r1")

SpecSeq == Init /\ [][NextSeq]_vars

\* ------------------------------------------------- verbosity: SpecVerb
\* The runs of context r1, linked or direct, aborted or not, their events
\* numbered consecutively and handled under every outcome of the verbosity
\* lookups.
DeliverVerbose(r) ==
  LET q == MapGet(agentRunSeq, r, 0) + 1
  IN /\ delivered < MaxEvents
     /\ \E evt \in AgentEvents(r, q, {"Hello"}) : \E vi \in verboseInputs(evt) :
          HandleEvent(evt, vi.runVerbose, vi.lookup)

NextVerb ==
  \/ \E l \in SendRequests : Add(l.sessionId, l.sessionKey, l.clientRunId)
  \/ Abort("c1")
  \/ DeliverVerbose("r1")

SpecVerb == Init /\ [][NextVerb]_vars

\* ---------------------------------------- the registry alone: SpecReg
\* The registry's own operations called directly, links queued under either
\* context key.
RegRequests ==
  {[sessionId |-> k, sessionKey |-> l.sessionKey, clientRunId |-> l.clientRunId] :
     k \in RunIds, l \in SendRequests}

\* registry.peek(sessionId): the entry returned; nothing changes
RegPeek(sessionId) ==
  /\ lastOp' = [op |-> "peek", key |-> sessionId,
                result |-> peek(chatRunSessions, sessionId)]
  /\ broadcasts' = <<>>
  /\ nodeSends' = <<>>
  /\ clearedRuns' = <<>>
  /\ UNCHANGED <<routerVars, histVars, clientVars, e2eVars, dropVars, pairVars>>

\* registry.shift(sessionId): the head leaves the queue and is returned
RegShift(sessionId) ==
  LET s == shift(chatRunSessions, sessionId)
  IN /\ chatRunSessions' = s.registry
     /\ gone' = IF s.entry # <<>>
                  THEN [gone EXCEPT ![sessionId] = @ \cup {s.entry[1].clientRunId}]
                  ELSE gone
     /\ lastOp' = [op |-> "shift", key |-> sessionId, result |-> s.entry]
     /\ broadcasts' = <<>>
     /\ nodeSends' = <<>>
     /\ clearedRuns' = <<>>
     /\ UNCHANGED <<messageIndexByRun, abortedRuns, agentRunSeq, sent>>
     /\ UNCHANGED <<seqHist, diagCount, toolStarts, addOrder, finalOrder>>
     /\ UNCHANGED <<clientVars, e2eVars, dropVars, pairVars>>

NextReg ==
  \/ \E l \in RegRequests : Add(l.sessionId, l.sessionKey, l.clientRunId)
  \/ \E k \in RunIds : RegPeek(k)
  \/ \E k \in RunIds : RegShift(k)
  \/ \E k \in RunIds, c \in ClientRunIds, s \in SessionKeys \cup {None} : Remove(k, c, s)

SpecReg == Init /\ [][NextReg]_vars

\* ------------------------------------------------- end to end: SpecE2E
\* Run r1 of session s1, its events numbered from 1, every chat notification
\* the router broadcasts handed to the client's handleChatEvent at once.
RECURSIVE deliverAll(_, _, _)
deliverAll(st, payloads, now) ==
  IF payloads = <<>> THEN st
  ELSE deliverAll(handleChatEvent(st, Head(payloads), now), Tail(payloads), now)

\* the events of the scenario's alphabet
ScenarioData ==
  {[stream |-> "assistant", data |-> [text |-> "Hello"]],
   [stream |-> "assistant", data |-> [text |-> "Found it"]],
   [stream |-> "tool", data |-> [phase |-> "start", name |-> "search"]],
   [stream |-> "tool", data |-> [phase |-> "result", name |-> "search"]],
   [stream |-> "lifecycle", data |-> [phase |-> "end"]]}

\* the run was started by a send of this client (link c2 of session s1 queued
\* under r1, c2 the client's active run), or directly (no link, client idle)
InitE2E ==
  /\ InitRouter
  /\ InitDrop
  /\ InitPair
  /\ evLog = <<>>
  /\ chatLog = <<>>
  /\ \/ idleClient
     \/ /\ sessionKey = "s1"
        /\ chatRunId = "c2"
        /\ chatStreamMessages = <<>>
        /\ chatToolsRunning = 0
        /\ chatCurrentTool = None
        /\ lastError = None

E2EStart ==
  /\ evLog = <<>>
  /\ chatRunId = "c2"
  /\ "c2" \notin sent
  /\ Add("r1", "s1", "c2")

E2EFeed(d) ==
  LET evt == [runId |-> "r1", seq |-> Len(evLog) + 1, stream |-> d.stream, data |-> d.data]
      now == Len(evLog) + 1
  IN /\ Len(evLog) < MaxE2E
     /\ chatRunId = "c2" => "c2" \in sent
     /\ \E vi \in verboseInputs(evt) : routeEvent(evt, vi.runVerbose, vi.lookup)
     /\ evLog' = Append(evLog, evt)
     /\ chatLog' = chatLog \o chatPayloads(broadcasts')
     /\ setClient(deliverAll(clientState, chatPayloads(broadcasts'), now))
     /\ UNCHANGED <<dropVars, pairVars>>

NextE2E ==
  \/ E2EStart
  \/ \E d \in ScenarioData : E2EFeed(d)

SpecE2E == InitE2E /\ [][NextE2E]_vars

\* ------------------------------------------- the client alone: SpecClient
\* Date.now() as the reconciler reads it
Times == {1, 2}

\* messageIndex values of the notifications: with a gap
Indexes == {0, 2}

\* errors a notification or a failed request carries
Errors == {"Error: boom"}

\* the message of a delta, as emitChatDelta builds it
textMessage(t) == [role |-> "assistant", content |-> <<[type |-> "text", text |-> t]>>]

\* ChatEventPayload: runId "" is a run id that is falsy; messageIndex, message,
\* tool and errorMessage are optional
ChatEvents(runIds, sessKeys) ==
  UNION {
    {[runId |-> r, sessionKey |-> s, state |-> "delta", messageIndex |-> i,
      message |-> textMessage(t)] : i \in Indexes, t \in Texts}
    \cup {[runId |-> r, sessionKey |-> s, state |-> "delta",
           message |-> textMessage(t)] : t \in Texts}
    \cup {[runId |-> r, sessionKey |-> s, state |-> "delta", messageIndex |-> i]
            : i \in Indexes}
    \cup {[runId |-> r, sessionKey |-> s, state |-> "tool-start",
           tool |-> [name |-> n]] : n \in ToolNames}
    \cup {[runId |-> r, sessionKey |-> s, state |-> st]
            : st \in {"tool-start", "tool-end", "final", "aborted", "error"}}
    \cup {[runId |-> r, sessionKey |-> s, state |-> "error", errorMessage |-> e]
            : e \in Errors}
    : r \in runIds, s \in sessKeys}

AllChatEvents == ChatEvents(ClientRunIds \cup {""}, SessionKeys)

\* the notifications that reach this client: of its session, for a run the
\* gateway names c1 or without a run id, and of the other session; a delta
\* has its messageIndex and a tool-start its tool, as the emitters set them
Notifications ==
  {p \in ChatEvents({"c1", ""}, {"s1"}) \cup ChatEvents({"c1"}, {"s2"}) :
     /\ p.state = "delta" => "messageIndex" \in DOMAIN p
     /\ p.state = "tool-start" => "tool" \in DOMAIN p}

\* payload.messageIndex ?? 0
indexOf(payload) ==
  IF "messageIndex" \in DOMAIN payload THEN payload.messageIndex ELSE 0

hasIndex(msgs, i) == \E j \in 1..Len(msgs) : msgs[j].index = i

\* what handleChatEvent does with the notification in this state
clientOp(st, payload) ==
  IF payload.sessionKey # st.sessionKey THEN "ignored-session"
  ELSE IF ignored(st, payload) THEN "ignored-run"
  ELSE IF payload.state # "delta" THEN payload.state
  ELSE IF extractText(payload) = None THEN "no-text"
  ELSE IF hasIndex(st.chatStreamMessages, indexOf(payload)) THEN "replaced"
  ELSE "inserted"

isTextDelta(op) == op \in {"inserted", "replaced"}
isReset(op) == op \in {"final", "aborted", "error"}

\* indices and texts of a message list
texts(msgs) == [j \in 1..Len(msgs) |-> [index |-> msgs[j].index, text |-> msgs[j].text]]

\* the message list had no delta been dropped, after this notification
undroppedAfter(payload, now) ==
  texts(handleChatEvent([clientState EXCEPT !.chatStreamMessages = undropped],
                        payload, now).chatStreamMessages)

\* sendChatMessage up to its await: a new run id, the run's state reset
SendChat(runId) ==
  /\ ~chatSending
  /\ chatSending' = TRUE
  /\ lastError' = None
  /\ chatRunId' = runId
  /\ chatStreamMessages' = <<>>
  /\ chatToolsRunning' = 0
  /\ chatCurrentTool' = None
  /\ undropped' = <<>>
  /\ dropStatus' = EmptyMap
  /\ lastOp' = [op |-> "send", evt |-> <<>>]
  /\ UNCHANGED <<routerVars, broadcasts, nodeSends, clearedRuns, histVars, pairVars,
                 sessionKey, e2eVars>>

\* sendChatMessage after its await: the request resolved
SendDone ==
  /\ chatSending
  /\ chatSending' = FALSE
  /\ lastOp' = [op |-> "send-done", evt |-> <<>>]
  /\ UNCHANGED <<routerVars, broadcasts, nodeSends, clearedRuns, histVars, pairVars,
                 clientVars, e2eVars, undropped, dropStatus>>

\* sendChatMessage after its await: the request was rejected
SendFailed(err) ==
  /\ chatSending
  /\ chatRunId' = None
  /\ chatStreamMessages' = <<>>
  /\ chatToolsRunning' = 0
  /\ chatCurrentTool' = None
  /\ lastError' = err
  /\ chatSending' = FALSE
  /\ undropped' = <<>>
  /\ dropStatus' = EmptyMap
  /\ lastOp' = [op |-> "send-failed", evt |-> <<>>]
  /\ UNCHANGED <<routerVars, broadcasts, nodeSends, clearedRuns, histVars, pairVars,
                 sessionKey, e2eVars>>

\* what the state was when the notification came
before(st) ==
  [tools |-> st.chatToolsRunning, streaming |-> st.chatStreamMessages # <<>>]

\* Date.now() is read in the delta branch only, once the text is a string
timesRead(st, payload) ==
  IF isTextDelta(clientOp(st, payload)) THEN Times ELSE {0}

\* a chat notification reaches the client: handleChatEvent(state, payload)
Receive(payload, now) ==
  LET op == clientOp(clientState, payload)
  IN /\ op = "tool-start" => chatToolsRunning < MaxTools
     /\ setClient(handleChatEvent(clientState, payload, now))
     /\ undropped' = undroppedAfter(payload, now)
     /\ dropStatus' = IF isReset(op) THEN EmptyMap
                      ELSE IF isTextDelta(op) /\ indexOf(payload) \in DOMAIN dropStatus
                        THEN MapSet(dropStatus, indexOf(payload), "healed")
                      ELSE dropStatus
     /\ lastOp' = [op |-> op,
                   evt |-> IF isTextDelta(op) THEN <<payload>> ELSE <<>>,
                   again |-> isTextDelta(lastOp.op) /\ lastOp.evt = <<payload>>,
                   was |-> before(clientState)]
     /\ UNCHANGED <<routerVars, broadcasts, nodeSends, clearedRuns, histVars, pairVars,
                    e2eVars, chatSending>>

\* the transport discards a delta instead of delivering it
Drop(payload, now) ==
  LET op == clientOp(clientState, payload)
  IN /\ payload.state = "delta"
     /\ undropped' = undroppedAfter(payload, now)
     /\ dropStatus' = IF isTextDelta(op) THEN MapSet(dropStatus, indexOf(payload), "dropped")
                                         ELSE dropStatus
     /\ lastOp' = [op |-> "dropped", evt |-> <<>>]
     /\ UNCHANGED <<routerVars, broadcasts, nodeSends, clearedRuns, histVars, pairVars,
                    clientVars, e2eVars, chatSending>>

NextClient ==
  \/ \E c \in ClientRunIds : SendChat(c)
  \/ SendDone
  \/ \E e \in Errors : SendFailed(e)
  \/ \E p \in Notifications : \E now \in timesRead(clientState, p) : Receive(p, now)

SpecClient == Init /\ [][NextClient]_vars

\* --------------------------------------------- a lossy transport: SpecDrop
\* the notifications of the messages of one run of the client's session, as the
\* gateway emits them: deltas with an index and the text so far, then a final
RunEvents ==
  {p \in ChatEvents({"c1"}, {"s1"}) :
     \/ p.state = "final"
     \/ p.state = "delta" /\ "messageIndex" \in DOMAIN p /\ "message" \in DOMAIN p}

NextDrop ==
  \/ SendChat("c1")
  \/ SendDone
  \/ \E p \in RunEvents : \E now \in timesRead(clientState, p) : Receive(p, now)
  \/ \E p \in RunEvents : \E now \in timesRead(clientState, p) : Drop(p, now)

SpecDrop == Init /\ [][NextDrop]_vars

\* ------------------------------------------ malformed deltas: SpecDeltas
\* the delta notifications of the client's run, well-formed or not: with or
\* without messageIndex, with or without a message text
RunDeltas == {p \in ChatEvents({"c1"}, {"s1"}) : p.state = "delta"}

NextDeltas ==
  \/ SendChat("c1")
  \/ \E p \in RunDeltas : \E now \in timesRead(clientState, p) : Receive(p, now)

SpecDeltas == Init /\ [][NextDeltas]_vars

\* ------------------------------------------- the tool card pairer: SpecPair
\* ToolCard.id: absent, or the id of the tool call
CardIds == {None, "a", "b"}

CardNames == {"search", "read"}

\* ToolCard.text of a result card
CardTexts == {"5 results", "ok"}

\* ToolCard: { kind, id?, name, text? }
ToolCards ==
  {[kind |-> "call", id |-> i, name |-> n, text |-> None] : i \in CardIds, n \in CardNames}
  \cup {[kind |-> "result", id |-> i, name |-> n, text |-> t]
          : i \in CardIds, n \in CardNames, t \in CardTexts}

\* extractToolCards(message): the tool cards of a message, in order
extractToolCards(message) == message.cards

\* the cards of all messages of the group, in order
RECURSIVE collectCards(_)
collectCards(messages) ==
  IF messages = <<>> THEN <<>>
  ELSE extractToolCards(Head(messages)) \o collectCards(Tail(messages))

isCall(card) == card.kind = "call"
isResult(card) == card.kind # "call"

\* if (call.id)
hasId(card) == card.id \notin {None, ""}

\* resultCards.findIndex((r, i) => !usedResults.has(i) && r.<key> === call.<key>),
\* counted from 1; 0 where the code has -1
firstUnused(resultCards, usedResults, matches(_)) ==
  LET found == {i \in 1..Len(resultCards) : i \notin usedResults /\ matches(resultCards[i])}
  IN IF found = {} THEN 0 ELSE CHOOSE i \in found : \A j \in found : i <= j

\* faulty variant: the id is the only key
findResult_idOnly(resultCards, usedResults, call) ==
  LET sameId(r) == r.id = call.id
  IN IF hasId(call) THEN firstUnused(resultCards, usedResults, sameId) ELSE 0

\* the result card of a call: by id first, then by name
findResult(resultCards, usedResults, call) ==
  LET sameId(r) == r.id = call.id
      sameName(r) == r.name = call.name
      byId == IF hasId(call) THEN firstUnused(resultCards, usedResults, sameId) ELSE 0
  IN IF byId # 0 THEN byId ELSE firstUnused(resultCards, usedResults, sameName)

\* faulty variant: the result text is written into the call card itself
pairCall_inPlace(acc, resultCards, k) ==
  LET call == acc.callCards[k]
      resultIndex == findResult(resultCards, acc.usedResults, call)
  IN IF resultIndex # 0
       THEN [paired |-> Append(acc.paired, [call EXCEPT !.text = resultCards[resultIndex].text]),
             usedResults |-> acc.usedResults \cup {resultIndex},
             callCards |-> [acc.callCards EXCEPT ![k].text = resultCards[resultIndex].text]]
       ELSE [acc EXCEPT !.paired = Append(@, call)]

\* one turn of the loop over the call cards: the k-th call is merged with its
\* result into a new card, or kept; the call cards themselves are not written
pairCall(acc, resultCards, k) ==
  LET call == acc.callCards[k]
      resultIndex == findResult(resultCards, acc.usedResults, call)
  IN IF resultIndex # 0
       THEN [paired |-> Append(acc.paired, [call EXCEPT !.text = resultCards[resultIndex].text]),
             usedResults |-> acc.usedResults \cup {resultIndex},
             callCards |-> acc.callCards]
       ELSE [acc EXCEPT !.paired = Append(@, call)]

\* the loop over the call cards, from the k-th on
RECURSIVE pairCalls(_, _, _)
pairCalls(acc, resultCards, k) ==
  IF k > Len(acc.callCards) THEN acc
  ELSE pairCalls(pairCall(acc, resultCards, k), resultCards, k + 1)

\* faulty variant: results no call took are left out
orphans_dropped(resultCards, usedResults) == <<>>

\* the result cards no call took, in order
orphans(resultCards, usedResults) ==
  LET RECURSIVE from(_)
      from(i) == IF i > Len(resultCards) THEN <<>>
                 ELSE IF i \in usedResults THEN from(i + 1)
                 ELSE <<resultCards[i]>> \o from(i + 1)
  IN from(1)

\* the cards of a message with its call cards as the loop left them
RECURSIVE putBackCards(_, _)
putBackCards(cards, calls) ==
  IF cards = <<>> THEN <<>>
  ELSE IF isCall(Head(cards))
    THEN <<Head(calls)>> \o putBackCards(Tail(cards), Tail(calls))
    ELSE <<Head(cards)>> \o putBackCards(Tail(cards), calls)

\* the messages of the group with their call cards as the loop left them
RECURSIVE putBack(_, _)
putBack(messages, calls) ==
  IF messages = <<>> THEN <<>>
  ELSE LET n == Len(SelectSeq(Head(messages).cards, isCall))
       IN <<[cards |-> putBackCards(Head(messages).cards, SubSeq(calls, 1, n))]>>
            \o putBack(Tail(messages), SubSeq(calls, n + 1, Len(calls)))

\* collectAndPairToolCards(messages): the cards it returns, and the messages
\* as the call leaves them
collectAndPairToolCards(messages) ==
  LET cards == collectCards(messages)
      callCards == SelectSeq(cards, isCall)
      resultCards == SelectSeq(cards, isResult)
      acc == pairCalls([paired |-> <<>>, usedResults |-> {}, callCards |-> callCards],
                       resultCards, 1)
  IN [cards |-> acc.paired \o orphans(resultCards, acc.usedResults),
      usedResults |-> acc.usedResults,
      messages |-> putBack(messages, acc.callCards)]

\* sequences of at most n elements of S
RECURSIVE SeqUpTo(_, _)
SeqUpTo(S, n) ==
  IF n = 0 THEN {<<>>}
  ELSE LET shorter == SeqUpTo(S, n - 1)
       IN shorter \cup {Append(q, x) : q \in {r \in shorter : Len(r) = n - 1}, x \in S}

\* a display group of two messages: the second holds all the cards, or all
\* but the first
InitGroup ==
  \E cards \in SeqUpTo(ToolCards, MaxCards) : \E k \in {0, 1} \cap 0..Len(cards) :
    group = <<[cards |-> SubSeq(cards, 1, k)], [cards |-> SubSeq(cards, k + 1, Len(cards))]>>

InitPairer ==
  /\ InitRouter
  /\ InitDrop
  /\ idleClient
  /\ evLog = <<>>
  /\ chatLog = <<>>
  /\ InitGroup
  /\ pairedToolCards = <<>>
  /\ firstPaired = <<>>
  /\ groupAtFirst = <<>>

\* renderMessageGroup(group, opts): the group's cards are collected and paired
Render ==
  /\ \E r \in {collectAndPairToolCards(group)} :
       /\ pairedToolCards' = r.cards
       /\ group' = r.messages
       /\ lastOp' = [op |-> "render", evt |-> <<>>, again |-> firstPaired # <<>>,
                     usedResults |-> r.usedResults]
       /\ firstPaired' = IF firstPaired = <<>> THEN <<r.cards>> ELSE firstPaired
       /\ groupAtFirst' = IF firstPaired = <<>> THEN <<group>> ELSE groupAtFirst
  /\ UNCHANGED <<routerVars, broadcasts, nodeSends, clearedRuns, histVars, clientVars,
                 e2eVars, dropVars>>

NextPair == Render

SpecPair == InitPairer /\ [][NextPair]_vars

\* ===================================================================
\* Claims
\* ===================================================================

\* the scenario of C1: delta(1, Hello), tool-start(2, search),
\* tool-result(3, search), delta(4, Found it), lifecycle-end(5), all of run r1
Scenario ==
  <<[runId |-> "r1", seq |-> 1, stream |-> "assistant", data |-> [text |-> "Hello"]],
    [runId |-> "r1", seq |-> 2, stream |-> "tool",
     data |-> [phase |-> "start", name |-> "search"]],
    [runId |-> "r1", seq |-> 3, stream |-> "tool",
     data |-> [phase |-> "result", name |-> "search"]],
    [runId |-> "r1", seq |-> 4, stream |-> "assistant", data |-> [text |-> "Found it"]],
    [runId |-> "r1", seq |-> 5, stream |-> "lifecycle", data |-> [phase |-> "end"]]>>

isDelta(p, index, text) ==
  p.state = "delta" /\ p.messageIndex = index /\ extractText(p) = text

isTool(p, state, name) == p.state = state /\ p.tool.name = name

\* C1: feeding the router delta(1,"Hello"), tool-start(2,"search"),
\* tool-result(3,"search"), delta(4,"Found it"), lifecycle-end(5) of run r1 in
\* session s1, with no abort, broadcasts on the chat channel exactly
\* delta(index 0,"Hello"), tool-start search, tool-end search,
\* delta(index 1,"Found it"), final, in this order and all for session s1; no
\* seq-gap diagnostic is broadcast; and the client that receives them ends
\* with no streaming message, no tool running and no active run.
C1_EndToEnd ==
  evLog = Scenario =>
    /\ Len(chatLog) = 5
    /\ isDelta(chatLog[1], 0, "Hello")
    /\ isTool(chatLog[2], "tool-start", "search")
    /\ isTool(chatLog[3], "tool-end", "search")
    /\ isDelta(chatLog[4], 1, "Found it")
    /\ chatLog[5].state = "final"
    /\ \A i \in 1..5 : /\ chatLog[i].sessionKey = "s1"
                       /\ chatLog[i].seq = i
                       /\ chatLog[i].runId = chatLog[1].runId
    /\ diagCount["r1"] = 0
    /\ chatStreamMessages = <<>>
    /\ chatToolsRunning = 0
    /\ chatCurrentTool = None
    /\ chatRunId = None

\* C1 witness: the whole scenario was fed and its final was broadcast
C1_Witness ==
  /\ evLog = Scenario
  /\ Len(chatLog) = 5
  /\ chatLog[5].state = "final"

\* the delta notifications broadcast by the last handler call
deltasOut == {i \in 1..Len(broadcasts) :
                isChat(broadcasts[i]) /\ broadcasts[i].payload.state = "delta"}

\* C2: every delta notification the router emits for a run carries
\* messageIndex = N, the number of tool-start events it has handled for that
\* run so far (0 when none), however many text-delta and tool-end events came
\* in between.
C2_DeltaIndexIsToolStarts ==
  \A i \in deltasOut :
    broadcasts[i].payload.messageIndex = MapGet(toolStarts, broadcasts[i].payload.runId, 0)

\* C2 witness: a delta for index 2, after two tool-starts with a delta and a
\* tool-end in between
C2_Witness ==
  /\ \E i \in deltasOut : broadcasts[i].payload.messageIndex = 2
  /\ Len(evLog) = 5
  /\ evLog[1].stream = "tool" /\ evLog[1].data.phase = "start"
  /\ evLog[2].stream = "assistant"
  /\ evLog[3].stream = "tool" /\ evLog[3].data.phase = "result"
  /\ evLog[4].stream = "tool" /\ evLog[4].data.phase = "start"

\* ------------------------------------------------------ the sequence guard
\* the seq recorded before the i-th event of a history (0 before the first)
prevSeq(h, i) == IF i = 1 THEN 0 ELSE h[i - 1]

\* the positions of a history whose seq is not the recorded seq plus one
gapsIn(h) == {i \in 1..Len(h) : h[i] # prevSeq(h, i) + 1}

consecutiveFromOne(h) == \A i \in 1..Len(h) : h[i] = i

strictlyIncreasingFromOne(h) ==
  /\ Len(h) > 0 => h[1] = 1
  /\ \A i \in 2..Len(h) : h[i] > h[i - 1]

\* C3 as stated: a run whose events carry strictly increasing seq values
\* starting at 1 never makes the router emit a seq-gap diagnostic.
C3_Original ==
  \A r \in RunIds : strictlyIncreasingFromOne(seqHist[r]) => diagCount[r] = 0

\* C3 (amended): a run whose events carry the consecutive seq values
\* 1, 2, 3, ... never makes the router emit a seq-gap diagnostic.
C3_ConsecutiveNoDiagnostic ==
  \A r \in RunIds : consecutiveFromOne(seqHist[r]) => diagCount[r] = 0

\* C3 witness: three consecutive events of one run, no diagnostic
C3_Witness == seqHist["r1"] = <<1, 2, 3>> /\ diagCount["r1"] = 0

\* the event the last handler call was made on, and the seq recorded before it
lastEvt == lastOp.evt[1]

lastBefore == prevSeq(seqHist[lastEvt.runId], Len(seqHist[lastEvt.runId]))

\* C4: the router emits a seq-gap diagnostic on the agent channel exactly when
\* evt.seq differs from the recorded seq of the run plus one (0 recorded when
\* none); the diagnostic names expected = recorded + 1 and received = evt.seq;
\* afterwards the recorded seq is evt.seq.  So the number of diagnostics of a
\* run is the number of its events that were not the successor of the one
\* before: one skip ahead gives one diagnostic.
C4_SeqGuard ==
  /\ \A r \in RunIds :
       /\ seqHist[r] = <<>> => r \notin DOMAIN agentRunSeq
       /\ seqHist[r] # <<>> =>
            /\ r \in DOMAIN agentRunSeq
            /\ agentRunSeq[r] = seqHist[r][Len(seqHist[r])]
       /\ diagCount[r] = Cardinality(gapsIn(seqHist[r]))
  /\ lastOp.op = "event" =>
       /\ (gapDiags(broadcasts) # {}) <=> (lastEvt.seq # lastBefore + 1)
       /\ Cardinality(gapDiags(broadcasts)) <= 1
       /\ \A i \in gapDiags(broadcasts) :
            /\ broadcasts[i].event = "agent"
            /\ broadcasts[i].payload.runId = lastEvt.runId
            /\ broadcasts[i].payload.data.reason = "seq gap"
            /\ broadcasts[i].payload.data.expected = lastBefore + 1
            /\ broadcasts[i].payload.data.received = lastEvt.seq

\* C4 witness: one skip ahead (1, 3) and a consecutive event after it: one
\* diagnostic, emitted at the skip
C4_Witness ==
  /\ seqHist["r1"] = <<1, 3, 4>>
  /\ diagCount["r1"] = 1
  /\ gapDiags(broadcasts) = {}

\* a chat notification without its seq field
stripSeq(p) == [k \in DOMAIN p \ {"seq"} |-> p[k]]

\* the chat notifications of a handler call, seq fields apart
chatOut(res) ==
  [i \in 1..Len(chatPayloads(res.broadcasts)) |-> stripSeq(chatPayloads(res.broadcasts)[i])]

\* the chat notifications sent to the session's nodes, seq fields apart
chatSends(res) ==
  {stripSeq(res.nodeSends[i].payload) :
     i \in {j \in 1..Len(res.nodeSends) : res.nodeSends[j].event = "chat"}}

\* C5: in every reachable state, handling an event with a gapped seq and
\* handling the same event with the expected seq give the same chat
\* notifications (seq apart) and leave the same registry, message indexes and
\* abort markers; only the gapped one adds the diagnostic.
C5_GapNotDropped ==
  \A r \in RunIds :
    LET last == MapGet(agentRunSeq, r, 0)
    IN \A evt \in AgentEvents(r, last + 1, {"Hello"}) : \A vi \in verboseInputs(evt) :
         \A n \in {agentEventHandler(chatRunSessions, messageIndexByRun, abortedRuns,
                                     agentRunSeq, evt, vi.runVerbose, vi.lookup)} :
           \A q \in seqChoices(last) \ {last + 1} :
             \A g \in {agentEventHandler(chatRunSessions, messageIndexByRun, abortedRuns,
                                         agentRunSeq, [evt EXCEPT !.seq = q],
                                         vi.runVerbose, vi.lookup)} :
               /\ gapDiags(g.broadcasts) # {}
               /\ gapDiags(n.broadcasts) = {}
               /\ chatOut(g) = chatOut(n)
               /\ chatSends(g) = chatSends(n)
               /\ g.registry = n.registry
               /\ g.messageIndexByRun = n.messageIndexByRun
               /\ g.abortedRuns = n.abortedRuns
               /\ g.finished = n.finished

\* C5 witness: a gapped delta was handled after a tool-start and went out on
\* the chat channel with the run's index, next to the diagnostic
C5_Witness ==
  /\ lastOp.op = "event"
  /\ lastEvt.seq # lastBefore + 1
  /\ gapDiags(broadcasts) # {}
  /\ \E i \in deltasOut : broadcasts[i].payload.messageIndex = 1

\* ------------------------------------------------- terminal events, aborts
\* the last handler call was made on a terminal lifecycle event
terminalHandled == lastOp.op = "event" /\ isTerminal(lastEvt)

\* the chat notifications the last handler call sent to session nodes
chatNodeSends == {i \in 1..Len(nodeSends) : nodeSends[i].event = "chat"}

noChatOut == chatPayloads(broadcasts) = <<>> /\ chatNodeSends = {}

\* C6: right after the router handled a terminal lifecycle event (end or
\* error) of a run, whether it reported final/error or the run was aborted,
\* messageIndexByRun and abortedRuns hold no entry under the run's clientRunId.
C6_NoResidualEntries ==
  terminalHandled =>
    /\ lastOp.run.clientRunId \notin DOMAIN messageIndexByRun
    /\ lastOp.run.clientRunId \notin abortedRuns

\* C6 witness: the terminal event of an aborted run that had a link, and the
\* terminal event of a run that was reported (two runs of context r1)
C6_Witness ==
  /\ terminalHandled
  /\ lastOp.aborted
  /\ lastOp.run.chatLink # <<>>
  /\ finalOrder["r1"] # <<>>

\* C7: an event of a run that has an abort marker (under its clientRunId or
\* under its internal run id) makes the router emit nothing on the chat
\* channel, the terminal lifecycle event included; and in every reachable
\* state, an assistant or tool event of a marked run would leave the message
\* indexes, the markers and the registry as they are.
C7_AbortSuppression ==
  /\ (lastOp.op = "event" /\ lastOp.aborted) => noChatOut
  /\ \A r \in RunIds :
       \A evt \in AgentEvents(r, MapGet(agentRunSeq, r, 0) + 1, {"Hello"}) :
         \A vi \in verboseInputs(evt) :
           LET run == resolveRun(chatRunSessions, evt)
               res == agentEventHandler(chatRunSessions, messageIndexByRun, abortedRuns,
                                        agentRunSeq, evt, vi.runVerbose, vi.lookup)
           IN (run.clientRunId \in abortedRuns \/ r \in abortedRuns) =>
                /\ chatPayloads(res.broadcasts) = <<>>
                /\ \A i \in 1..Len(res.nodeSends) : res.nodeSends[i].event # "chat"
                /\ ~isTerminal(evt) =>
                     /\ res.messageIndexByRun = messageIndexByRun
                     /\ res.abortedRuns = abortedRuns
                     /\ res.registry = chatRunSessions

\* C7 witness: an assistant or tool event of a run that streamed before it was
\* aborted (its message index exists) was handled under the marker
C7_Witness ==
  /\ lastOp.op = "event"
  /\ lastOp.aborted
  /\ lastEvt.stream \in {"assistant", "tool"}
  /\ lastOp.run.clientRunId \in DOMAIN messageIndexByRun
  /\ noChatOut

\* the aborted run's link, when it had one, is out of the registry
linkRemoved ==
  lastOp.run.chatLink # <<>> =>
    /\ lastOp.run.clientRunId \in gone[lastEvt.runId]
    /\ lastOp.run.clientRunId \notin queued(chatRunSessions, lastEvt.runId)

\* C8 as stated: after the terminal lifecycle event of an aborted run,
\* abortedRuns and messageIndexByRun hold no entry under the clientRunId nor
\* under the internal run id, the run's link is out of the registry and no
\* chat notification was emitted.
C8_Original ==
  (terminalHandled /\ lastOp.aborted) =>
    /\ lastOp.run.clientRunId \notin abortedRuns
    /\ lastEvt.runId \notin abortedRuns
    /\ lastOp.run.clientRunId \notin DOMAIN messageIndexByRun
    /\ lastEvt.runId \notin DOMAIN messageIndexByRun
    /\ linkRemoved
    /\ noChatOut

\* C8 (amended): after the terminal lifecycle event of an aborted run,
\* abortedRuns holds no entry under the clientRunId nor under the internal run
\* id, messageIndexByRun holds none under the clientRunId, the run's link is
\* out of the registry and no chat notification was emitted.
C8_AbortedCleanup ==
  (terminalHandled /\ lastOp.aborted) =>
    /\ lastOp.run.clientRunId \notin abortedRuns
    /\ lastEvt.runId \notin abortedRuns
    /\ lastOp.run.clientRunId \notin DOMAIN messageIndexByRun
    /\ linkRemoved
    /\ noChatOut

\* C8 witness: the terminal event of an aborted run that had a link, another
\* link still queued behind it
C8_Witness ==
  /\ terminalHandled
  /\ lastOp.aborted
  /\ lastOp.run.chatLink # <<>>
  /\ lastOp.run.clientRunId # lastEvt.runId
  /\ lastEvt.runId \in DOMAIN chatRunSessions

\* the one chat notification of a terminal event: final for end, error for
\* error, under the head link's identity (then dequeued) or, without a link,
\* under the resolved session and the internal run id
oneTerminalNotification ==
  LET out == chatPayloads(broadcasts)
      link == lastOp.run.chatLink
  IN /\ Len(out) = 1
     /\ Cardinality(chatNodeSends) = 1
     /\ \A i \in chatNodeSends : nodeSends[i].payload = out[1]
     /\ out[1].state = (IF lastEvt.data.phase = "end" THEN "final" ELSE "error")
     /\ out[1].seq = lastEvt.seq
     /\ link # <<>> =>
          /\ out[1].sessionKey = link[1].sessionKey
          /\ out[1].runId = link[1].clientRunId
          /\ link[1].clientRunId \in gone[lastEvt.runId]
          /\ link[1].clientRunId \notin queued(chatRunSessions, lastEvt.runId)
     /\ link = <<>> =>
          /\ out[1].sessionKey = lastOp.run.sessionKey
          /\ out[1].runId = lastEvt.runId

\* C9 as stated: every terminal lifecycle event of a run that is not aborted
\* makes the router emit exactly one chat notification, final for end and
\* error for error, under the dequeued head link's identity or, without a
\* link, under the resolved session and the internal run id.
C9_Original == (terminalHandled /\ ~lastOp.aborted) => oneTerminalNotification

\* C9 (amended): every terminal lifecycle event of a run that is not aborted
\* and whose session key is known (from its link or from the resolver) makes
\* the router emit exactly one chat notification, final for end and error for
\* error, under the dequeued head link's identity or, without a link, under
\* the resolved session and the internal run id.
C9_OneTerminalNotification ==
  (terminalHandled /\ ~lastOp.aborted /\ lastOp.run.sessionKey # None) =>
    oneTerminalNotification

\* C9 witness: a linked run failed and its error went out under the link's
\* identity
C9_Witness ==
  /\ terminalHandled
  /\ ~lastOp.aborted
  /\ lastOp.run.chatLink # <<>>
  /\ lastEvt.data.phase = "error"
  /\ Len(chatPayloads(broadcasts)) = 1
  /\ chatPayloads(broadcasts)[1].state = "error"
  /\ chatPayloads(broadcasts)[1].runId = "c1"

\* ------------------------------------------------------------- FIFO order
\* the position of a client run id in a sequence of distinct ids
pos(order, c) == CHOOSE i \in 1..Len(order) : order[i] = c

\* order lists distinct ids: sub lists some of them in the same order
isSubsequence(sub, order) ==
  /\ \A i \in 1..Len(sub) : \E j \in 1..Len(order) : order[j] = sub[i]
  /\ \A i, j \in 1..Len(sub) : i < j => pos(order, sub[i]) < pos(order, sub[j])

\* the ids of order that are not in out, in order
RECURSIVE without(_, _)
without(order, out) ==
  IF order = <<>> THEN <<>>
  ELSE (IF Head(order) \in out THEN <<>> ELSE <<Head(order)>>) \o without(Tail(order), out)

queueIds(reg, k) ==
  IF k \in DOMAIN reg THEN [i \in 1..Len(reg[k]) |-> reg[k][i].clientRunId] ELSE <<>>

\* C10: for each context key the clientRunIds of the final/error
\* notifications reported through its links are a subsequence of the order in
\* which the links were added, and the link an event of the context is
\* attributed to is the earliest-added link that was neither shifted nor
\* removed.
C10_FifoFinalization ==
  \A k \in RunIds :
    LET live == without(addOrder[k], gone[k])
        head == peek(chatRunSessions, k)
    IN /\ isSubsequence(finalOrder[k], addOrder[k])
       /\ queueIds(chatRunSessions, k) = live
       /\ live = <<>> => head = <<>>
       /\ live # <<>> =>
            /\ head # <<>>
            /\ head[1].clientRunId = live[1]
            /\ \A evt \in AgentEvents(k, 1, {"Hello"}) :
                 resolveRun(chatRunSessions, evt).clientRunId = live[1]

\* C10 witness: two links of one context, both reported, in the order added
C10_Witness ==
  /\ addOrder["r1"] = <<"c1", "c2">>
  /\ finalOrder["r1"] = <<"c1", "c2">>

\* ------------------------------------------------------------ the registry
\* the link a send queued under client run id c
entryFor(c) ==
  LET l == CHOOSE x \in SendRequests : x.clientRunId = c
  IN [sessionKey |-> l.sessionKey, clientRunId |-> c]

\* the links added under k and neither shifted nor removed, oldest first
liveLinks(k) ==
  [i \in 1..Len(without(addOrder[k], gone[k])) |-> entryFor(without(addOrder[k], gone[k])[i])]

\* C11: the registry is one FIFO queue per context key.  Whatever add, peek,
\* shift and remove calls were made, the queue under k holds the links added
\* under k and not yet taken out, oldest first, and no key holds an empty
\* queue; peek(k) returned the oldest of them (undefined when there is none)
\* and shift(k) returned the oldest and took exactly it out (undefined when
\* there was none).
C11_RegistryFifo ==
  /\ \A k \in DOMAIN chatRunSessions : Len(chatRunSessions[k]) > 0
  /\ \A k \in RunIds :
       /\ k \in DOMAIN chatRunSessions <=> liveLinks(k) # <<>>
       /\ k \in DOMAIN chatRunSessions => chatRunSessions[k] = liveLinks(k)
  /\ lastOp.op = "peek" =>
       lastOp.result = (IF liveLinks(lastOp.key) = <<>> THEN <<>>
                        ELSE <<liveLinks(lastOp.key)[1]>>)
  /\ lastOp.op = "shift" =>
       IF lastOp.result = <<>>
         THEN without(addOrder[lastOp.key], gone[lastOp.key]) = <<>>
         ELSE LET c == lastOp.result[1].clientRunId
              IN /\ lastOp.result[1] = entryFor(c)
                 /\ c \in gone[lastOp.key]
                 /\ without(addOrder[lastOp.key], gone[lastOp.key] \ {c})[1] = c

\* C11 witness: shift returned the older of two links queued under one key
\* and the younger is now the head
C11_Witness ==
  /\ lastOp.op = "shift"
  /\ lastOp.result # <<>>
  /\ Len(addOrder[lastOp.key]) = 2
  /\ lastOp.result[1].clientRunId = addOrder[lastOp.key][1]
  /\ peek(chatRunSessions, lastOp.key) = <<entryFor(addOrder[lastOp.key][2])>>

\* ------------------------------------------------------------- the reset
\* C12: after ChatRunState.clear(), from whatever state it was called in, the
\* registry has no link under any context key, messageIndexByRun is empty and
\* abortedRuns is empty.
C12_ClearWipesAll ==
  lastOp.op = "clear" =>
    /\ \A k \in RunIds \cup ClientRunIds : peek(chatRunSessions, k) = <<>>
    /\ DOMAIN chatRunSessions = {}
    /\ DOMAIN messageIndexByRun = {}
    /\ abortedRuns = {}

\* C12 witness: clear() was called with links, message indexes and abort
\* markers all present
C12_Witness ==
  /\ lastOp.op = "clear"
  /\ lastOp.wiped.links > 0
  /\ lastOp.wiped.indexes > 0
  /\ lastOp.wiped.markers > 0

\* --------------------------------------------------------------- verbosity
\* every outcome of the verbosity lookups of one handler call
AllVerbose ==
  verboseInputs([runId |-> "r1", seq |-> 1, stream |-> "tool",
                 data |-> [phase |-> "start", name |-> "search"]])

\* the raw event, as broadcast on the agent channel
isRaw(b, evt) == b.event = "agent" /\ b.payload.stream = evt.stream

\* C13: in every reachable state and for every event, the handler under any
\* two outcomes of the verbosity lookups (on, off, unset, a failing lookup)
\* emits the same chat notifications and the same seq-gap diagnostics and
\* leaves the same registry, message indexes, abort markers and seq counters;
\* the raw event is broadcast on the agent channel unless it is a tool event
\* and the effective verbosity is not on.  (Tool events are taken with the
\* expected and with a gapped seq, the others with the expected seq.)
C13_VerbosityChatNeutral ==
  \A r \in RunIds :
    \A q \in {MapGet(agentRunSeq, r, 0) + 1, MapGet(agentRunSeq, r, 0) + 2} :
      \A evt \in {e \in AgentEvents(r, q, {"Hello"}) :
                    e.stream = "tool" \/ q = MapGet(agentRunSeq, r, 0) + 1} :
        \A on \in {agentEventHandler(chatRunSessions, messageIndexByRun, abortedRuns,
                                     agentRunSeq, evt, "on",
                                     [throws |-> TRUE, entry |-> None, dflt |-> None])} :
          /\ \E i \in 1..Len(on.broadcasts) : isRaw(on.broadcasts[i], evt)
          /\ \A vi \in {v \in AllVerbose : v.runVerbose # "on"} :
               \A x \in {agentEventHandler(chatRunSessions, messageIndexByRun,
                                           abortedRuns, agentRunSeq, evt,
                                           vi.runVerbose, vi.lookup)} :
                 /\ chatPayloads(x.broadcasts) = chatPayloads(on.broadcasts)
                 /\ {x.nodeSends[i] : i \in {j \in 1..Len(x.nodeSends) :
                                               x.nodeSends[j].event = "chat"}}
                      = {on.nodeSends[i] : i \in {j \in 1..Len(on.nodeSends) :
                                                    on.nodeSends[j].event = "chat"}}
                 /\ {x.broadcasts[i] : i \in gapDiags(x.broadcasts)}
                      = {on.broadcasts[i] : i \in gapDiags(on.broadcasts)}
                 /\ x.registry = on.registry
                 /\ x.messageIndexByRun = on.messageIndexByRun
                 /\ x.abortedRuns = on.abortedRuns
                 /\ x.agentRunSeq = on.agentRunSeq
                 /\ x.clearedRuns = on.clearedRuns
                 /\ (\E i \in 1..Len(x.broadcasts) : isRaw(x.broadcasts[i], evt))
                      <=> (evt.stream # "tool"
                           \/ shouldEmitToolEvents(vi.runVerbose,
                                                   resolveRun(chatRunSessions, evt).sessionKey,
                                                   vi.lookup))

\* C13 witness: a tool-start handled with verbosity off: no raw event on the
\* agent channel, the tool-start on the chat channel
C13_Witness ==
  /\ lastOp.op = "event"
  /\ lastEvt.stream = "tool"
  /\ lastEvt.data.phase = "start"
  /\ \A i \in 1..Len(broadcasts) : ~isRaw(broadcasts[i], lastEvt)
  /\ Len(chatPayloads(broadcasts)) = 1
  /\ chatPayloads(broadcasts)[1].state = "tool-start"

\* ------------------------------------------------------------ backpressure
\* C14: of the chat notifications the router broadcasts, the deltas are
\* tagged dropIfSlow and the tool-start, tool-end, final and error
\* notifications are not.
C14_OnlyDeltasDroppable ==
  \A i \in 1..Len(broadcasts) :
    isChat(broadcasts[i]) =>
      /\ broadcasts[i].payload.state \in {"delta", "tool-start", "tool-end", "final", "error"}
      /\ broadcasts[i].dropIfSlow <=> broadcasts[i].payload.state = "delta"

\* C14 witness: a droppable delta for message index 1, that is, after a
\* tool-start that was not droppable
C14_Witness ==
  \E i \in deltasOut :
    /\ broadcasts[i].dropIfSlow
    /\ broadcasts[i].payload.messageIndex = 1

\* ------------------------------------------------------- the reconciler
\* the message of this index in a list of indices and texts, if any
textAt(ts, i) == {ts[j].text : j \in {k \in 1..Len(ts) : ts[k].index = i}}

stillDropped == {i \in DOMAIN dropStatus : dropStatus[i] = "dropped"}

otherSession(payload) == payload.sessionKey # sessionKey

strictlySorted(msgs) == \A j \in 1..(Len(msgs) - 1) : msgs[j].index < msgs[j + 1].index

indexesOf(msgs) == {msgs[j].index : j \in 1..Len(msgs)}

\* the messages of a list with another index than this one
others(msgs, i) == {msgs[j] : j \in {k \in 1..Len(msgs) : msgs[k].index # i}}

\* C17: the StreamingMessage list is always sorted by strictly increasing
\* index, so it holds at most one message per index. A delta that passes the
\* guard with a text, for index i, leaves a sorted list that holds the
\* indices it held before and i, with the delta's text at i (the message
\* that was there keeps its start time, a new one gets the time of the
\* call), every other message as it was, and the rest of the state as it was.
C17_SortedUpsert ==
  /\ strictlySorted(chatStreamMessages)
  /\ \A payload \in AllChatEvents, now \in Times :
       isTextDelta(clientOp(clientState, payload)) =>
         \A st \in {handleChatEvent(clientState, payload, now)} :
           LET i == indexOf(payload)
               was == chatStreamMessages
               msgs == st.chatStreamMessages
           IN /\ strictlySorted(msgs)
              /\ indexesOf(msgs) = indexesOf(was) \cup {i}
              /\ \A j \in 1..Len(msgs) :
                   msgs[j].index = i =>
                     /\ msgs[j].text = extractText(payload)
                     /\ IF hasIndex(was, i)
                          THEN \E k \in 1..Len(was) : /\ was[k].index = i
                                                      /\ was[k].startedAt = msgs[j].startedAt
                          ELSE msgs[j].startedAt = now
              /\ others(msgs, i) = others(was, i)
              /\ st = [clientState EXCEPT !.chatStreamMessages = msgs]

\* C17 witness: message 2 was there first; the delta for index 0 has just
\* put message 0 in front of it, index 1 missing
C17_Witness ==
  /\ lastOp.op = "inserted"
  /\ indexOf(lastOp.evt[1]) = 0
  /\ Len(chatStreamMessages) = 2
  /\ chatStreamMessages[1].index = 0
  /\ chatStreamMessages[2].index = 2

\* C18: delta idempotence. Whatever the client state, handing the same
\* delta notification to handleChatEvent a second time, right after the
\* first, leaves the indices and texts of the StreamingMessage list (and the
\* rest of the client state) as the first delivery left them.
C18_DeltaIdempotent ==
  \A payload \in {p \in AllChatEvents : p.state = "delta"} :
    \A t1 \in timesRead(clientState, payload), t2 \in Times :
      \A once \in {handleChatEvent(clientState, payload, t1)} :
        \A twice \in {handleChatEvent(once, payload, t2)} :
          /\ texts(twice.chatStreamMessages) = texts(once.chatStreamMessages)
          /\ twice = once

\* C18 witness: the delta just delivered is the one delivered right before
\* it, and found its message next to another one
C18_Witness ==
  /\ lastOp.op = "replaced"
  /\ lastOp.again
  /\ Len(chatStreamMessages) = 2

\* C19: the tool counter. A tool-start that passes the guard adds 1 to the
\* tools-running counter and makes the started tool the current one; a
\* tool-end takes 1 off but not below 0, and clears the current tool name
\* when the counter is 0 afterwards and only then; nothing else of the state
\* changes. The counter is never negative, and a tool-end that finds it at 0
\* leaves it at 0.
C19_ToolCounter ==
  /\ chatToolsRunning >= 0
  /\ \A payload \in AllChatEvents : \A now \in timesRead(clientState, payload) :
       clientOp(clientState, payload) \in {"tool-start", "tool-end"} =>
         \A st \in {handleChatEvent(clientState, payload, now)} :
           /\ payload.state = "tool-start" =>
                /\ st.chatToolsRunning = chatToolsRunning + 1
                /\ st.chatCurrentTool = IF "tool" \in DOMAIN payload THEN payload.tool.name
                                                                     ELSE None
           /\ payload.state = "tool-end" =>
                /\ st.chatToolsRunning = IF chatToolsRunning = 0 THEN 0
                                                                 ELSE chatToolsRunning - 1
                /\ st.chatToolsRunning >= 0
                /\ st.chatCurrentTool = IF st.chatToolsRunning = 0 THEN None
                                                                   ELSE chatCurrentTool
           /\ st = [clientState EXCEPT !.chatToolsRunning = st.chatToolsRunning,
                                       !.chatCurrentTool = st.chatCurrentTool]

\* C19 witness: a tool-end came when no tool was running, while a message
\* streams: the counter is still 0
C19_Witness ==
  /\ lastOp.op = "tool-end"
  /\ lastOp.was.tools = 0
  /\ chatToolsRunning = 0
  /\ chatStreamMessages # <<>>

\* the run state of an idle client
isIdle(st) ==
  /\ st.chatStreamMessages = <<>>
  /\ st.chatToolsRunning = 0
  /\ st.chatCurrentTool = None
  /\ st.chatRunId = None

\* C20: a final, aborted or error notification that passes the guard resets
\* the reconciler to idle whatever it was streaming: no StreamingMessages,
\* tools-running counter 0, no current tool, no active run. Final and
\* aborted leave lastError as it was, so the same notification as final and
\* as aborted gives the same state; error sets lastError to the
\* notification's errorMessage ("chat error" if it carries none).
C20_TerminalResets ==
  \A payload \in AllChatEvents : \A now \in timesRead(clientState, payload) :
    isReset(clientOp(clientState, payload)) =>
      \A st \in {handleChatEvent(clientState, payload, now)} :
        /\ isIdle(st)
        /\ st.sessionKey = sessionKey
        /\ payload.state \in {"final", "aborted"} =>
             /\ st.lastError = lastError
             /\ handleChatEvent(clientState, [payload EXCEPT !.state = "final"], now)
                  = handleChatEvent(clientState, [payload EXCEPT !.state = "aborted"], now)
        /\ payload.state = "error" =>
             st.lastError = IF "errorMessage" \in DOMAIN payload THEN payload.errorMessage
                                                                 ELSE "chat error"

\* C20 witness: an aborted notification found a run with a message streaming
\* and a tool running, and left the client idle
C20_Witness ==
  /\ lastOp.op = "aborted"
  /\ lastOp.was.streaming
  /\ lastOp.was.tools > 0
  /\ isIdle(clientState)

\* ------------------------------------------------------ the tool card pairer
rendered == lastOp.op = "render"

groupCalls == SelectSeq(collectCards(group), isCall)
groupResults == SelectSeq(collectCards(group), isResult)

\* the result card the k-th call is to get, 0 if none: of the results no
\* earlier call got, the first with the call's id if the call has an id and
\* there is one, otherwise the first with the call's name
RECURSIVE resultFor(_, _, _)
resultFor(calls, results, k) ==
  LET taken == {resultFor(calls, results, j) : j \in 1..(k - 1)}
      free == {i \in 1..Len(results) : i \notin taken}
      byId == {i \in free : calls[k].id # None /\ results[i].id = calls[k].id}
      byName == {i \in free : results[i].name = calls[k].name}
      first(S) == CHOOSE i \in S : \A j \in S : i <= j
  IN IF byId # {} THEN first(byId) ELSE IF byName # {} THEN first(byName) ELSE 0

\* C21: the call cards are processed in input order. Each call gets the
\* first result card no earlier call got that has its id (when the call has
\* an id), otherwise the first such card that has its name. A call that got
\* a result yields one card with the call's kind, id and name and the
\* result's text; a call that got none is kept as it is; no result card goes
\* to two calls. One call {id a, name search} with one result {id a, text
\* "5 results"} yields the one card {name search, text "5 results"}.
C21_PairerMatching ==
  rendered =>
    /\ Len(pairedToolCards) >= Len(groupCalls)
    /\ \A k \in 1..Len(groupCalls) :
         \A m \in {resultFor(groupCalls, groupResults, k)} :
           pairedToolCards[k] =
             IF m = 0 THEN groupCalls[k]
             ELSE [kind |-> "call", id |-> groupCalls[k].id, name |-> groupCalls[k].name,
                   text |-> groupResults[m].text]
    /\ Cardinality(lastOp.usedResults)
         = Cardinality({k \in 1..Len(groupCalls) : pairedToolCards[k] # groupCalls[k]})
    /\ \A n \in CardNames :
         collectCards(group) = <<[kind |-> "call", id |-> "a", name |-> "search", text |-> None],
                                 [kind |-> "result", id |-> "a", name |-> n,
                                  text |-> "5 results"]>>
           => pairedToolCards = <<[kind |-> "call", id |-> "a", name |-> "search",
                                   text |-> "5 results"]>>

\* C21 witness: the call {id a, name search} and a result {id a, text
\* "5 results"} of another name have been rendered as one card
C21_Witness ==
  /\ rendered
  /\ collectCards(group) = <<[kind |-> "call", id |-> "a", name |-> "search", text |-> None],
                             [kind |-> "result", id |-> "a", name |-> "read",
                              text |-> "5 results"]>>
  /\ Len(pairedToolCards) = 1
  /\ pairedToolCards[1].text = "5 results"

\* the result cards in this order that are not at one of these places
RECURSIVE leftOver(_, _, _)
leftOver(results, used, i) ==
  IF i > Len(results) THEN <<>>
  ELSE (IF i \in used THEN <<>> ELSE <<results[i]>>) \o leftOver(results, used, i + 1)

\* C22: conservation. The output holds one card per call card, in call
\* order (the call's kind, id and name), followed by every result card no
\* call consumed, in input order: its length is the number of calls plus the
\* number of unconsumed results, and the text of every result card is in
\* the output, in the card of the call that consumed it or in its own.
C22_PairerConservation ==
  rendered =>
    \A used \in {lastOp.usedResults} :
      /\ used \subseteq 1..Len(groupResults)
      /\ Len(pairedToolCards) = Len(groupCalls) + (Len(groupResults) - Cardinality(used))
      /\ \A k \in 1..Len(groupCalls) :
           /\ pairedToolCards[k].kind = "call"
           /\ pairedToolCards[k].id = groupCalls[k].id
           /\ pairedToolCards[k].name = groupCalls[k].name
      /\ SubSeq(pairedToolCards, Len(groupCalls) + 1, Len(pairedToolCards))
           = leftOver(groupResults, used, 1)
      /\ \A i \in used :
           \E k \in 1..Len(groupCalls) : pairedToolCards[k].text = groupResults[i].text
      /\ \A i \in 1..Len(groupResults) :
           \E j \in 1..Len(pairedToolCards) : pairedToolCards[j].text = groupResults[i].text

\* C22 witness: of two results of one name the call took the first, and the
\* second follows the merged card in the output
C22_Witness ==
  /\ rendered
  /\ Len(groupCalls) = 1
  /\ Len(groupResults) = 2
  /\ groupResults[1].name = groupResults[2].name
  /\ groupResults[1].text # groupResults[2].text
  /\ lastOp.usedResults = {1}
  /\ pairedToolCards = <<[groupCalls[1] EXCEPT !.text = groupResults[1].text], groupResults[2]>>

\* C23: pairing is idempotent. Whenever the group has been rendered, also
\* when it has been rendered again, the cards are those of the first render,
\* and the messages and their call and result cards are as the first render
\* found them.
C23_PairerIdempotent ==
  rendered =>
    /\ pairedToolCards = firstPaired[1]
    /\ group = groupAtFirst[1]

\* C23 witness: a group with a call that got its result and a result no call
\* took has been rendered a second time
C23_Witness ==
  /\ rendered
  /\ lastOp.again
  /\ lastOp.usedResults # {}
  /\ Len(groupCalls) = 1
  /\ Len(pairedToolCards) = 2

\* ------------------------------------------------------ the message index
\* the keys a message index can be kept under
IndexKeys == ClientRunIds \cup RunIds

\* the chat notifications of this state among those a handler call broadcast
emitted(res, state) ==
  \E i \in 1..Len(res.broadcasts) :
    isChat(res.broadcasts[i]) /\ res.broadcasts[i].payload.state = state

\* C24: the message index is monotonic and run-scoped. Whatever event the
\* router handles, in any reachable state: an index under another key than
\* the event's clientRunId stays as it is; the index of the event's run, if
\* it is there before and after, stays or grows by 1, and grows exactly when
\* the tool-start notification of that run is emitted (which finds it
\* incremented); a text delta or a tool-end leaves it as it is, a delta
\* creating it at 0 if the run has none; it goes away only with a terminal
\* event of its run.
C24_IndexMonotonic ==
  \A r \in RunIds :
    \A evt \in AgentEvents(r, MapGet(agentRunSeq, r, 0) + 1, {"Hello"}) :
      \A vi \in verboseInputs(evt) :
        \A res \in {agentEventHandler(chatRunSessions, messageIndexByRun, abortedRuns,
                                      agentRunSeq, evt, vi.runVerbose, vi.lookup)} :
          LET c == resolveRun(chatRunSessions, evt).clientRunId
              was == messageIndexByRun
              now == res.messageIndexByRun
          IN /\ \A k \in IndexKeys \ {c} :
                  /\ (k \in DOMAIN was) <=> (k \in DOMAIN now)
                  /\ k \in DOMAIN was => now[k] = was[k]
             /\ (c \in DOMAIN was /\ c \in DOMAIN now) =>
                  /\ now[c] \in {was[c], was[c] + 1}
                  /\ (now[c] = was[c] + 1) <=> emitted(res, "tool-start")
             /\ (c \notin DOMAIN was /\ c \in DOMAIN now) =>
                  \/ emitted(res, "delta") /\ now[c] = 0
                  \/ emitted(res, "tool-start") /\ now[c] = 1
             /\ (c \in DOMAIN was /\ c \notin DOMAIN now) => isTerminal(evt)
             /\ emitted(res, "tool-start") =>
                  (c \in DOMAIN now /\ now[c] = MapGet(was, c, 0) + 1)
             /\ ((emitted(res, "delta") \/ emitted(res, "tool-end")) /\ c \in DOMAIN was) =>
                  (c \in DOMAIN now /\ now[c] = was[c])

\* C24 witness: a tool-start of run c1 was handled while another run kept
\* its own index: c1 is at 1 and the other where it was, at 0
C24_Witness ==
  /\ lastOp.op = "event"
  /\ lastEvt.stream = "tool"
  /\ lastEvt.data.phase = "start"
  /\ lastOp.run.clientRunId = "c1"
  /\ "c1" \in DOMAIN messageIndexByRun
  /\ messageIndexByRun["c1"] = 1
  /\ "r1" \in DOMAIN messageIndexByRun
  /\ messageIndexByRun["r1"] = 0

\* ------------------------------------------------- the upstream context
\* C25: a terminal lifecycle event (phase end or error) makes the router
\* call clearAgentRunContext for the event's internal run id exactly once,
\* aborted or not, session key and RunLink resolved or not; any other event
\* makes no such call.
C25_ContextReleasedOnce ==
  lastOp.op = "event" =>
    clearedRuns = IF lastEvt.stream = "lifecycle" /\ lastEvt.data.phase \in {"end", "error"}
                    THEN <<lastEvt.runId>>
                    ELSE <<>>

\* C25 witness: the terminal event of a run with no session key and no
\* RunLink released the context of that run
C25_Witness ==
  /\ lastOp.op = "event"
  /\ lastEvt.stream = "lifecycle"
  /\ lastEvt.data.phase = "error"
  /\ lastOp.run.sessionKey = None
  /\ lastOp.run.chatLink = <<>>
  /\ clearedRuns = <<lastEvt.runId>>

\* ------------------------------------------------------ registry remove
\* the queue under k, empty when the registry has no such key
queueOf(reg, k) == IF k \in DOMAIN reg THEN reg[k] ELSE <<>>

\* the positions of queue that remove(_, c, s) may take: the clientRunId is c
\* and, when a sessionKey s is given, the sessionKey is s
matching(queue, c, s) ==
  {i \in 1..Len(queue) :
     queue[i].clientRunId = c /\ (s # None => queue[i].sessionKey = s)}

\* the registry as it stands, and after one more add call of any link
registriesNow ==
  {chatRunSessions} \cup {add(chatRunSessions, k, e) : k \in RunIds, e \in ChatRunEntry}

\* C26: remove(contextKey, clientRunId, sessionKey?) removes at most one
\* entry, the first one of that context's queue whose clientRunId matches and
\* whose sessionKey matches when one is supplied; it returns that entry,
\* keeps the order of the others, deletes the queue when it becomes empty and
\* leaves the other queues alone; with no match it returns undefined and the
\* registry is unchanged.
C26_RemoveOne ==
  \A reg \in registriesNow :
    \A k \in RunIds, c \in ClientRunIds, s \in SessionKeys \cup {None} :
      LET r == remove(reg, k, c, s)
          queue == queueOf(reg, k)
          hits == matching(queue, c, s)
          after == queueOf(r.registry, k)
      IN IF hits = {}
           THEN r.entry = <<>> /\ r.registry = reg
           ELSE LET m == CHOOSE i \in hits : \A j \in hits : i <= j
                IN /\ r.entry = <<queue[m]>>
                   /\ Len(after) = Len(queue) - 1
                   /\ \A i \in 1..Len(after) :
                        after[i] = (IF i < m THEN queue[i] ELSE queue[i + 1])
                   /\ (k \in DOMAIN r.registry) <=> (Len(queue) > 1)
                   /\ \A j \in RunIds \ {k} :
                        /\ (j \in DOMAIN r.registry) <=> (j \in DOMAIN reg)
                        /\ queueOf(r.registry, j) = queueOf(reg, j)

\* C26 witness: remove took the younger of two links queued under one key,
\* which shift could not have taken, and the older one is still the head
C26_Witness ==
  \E k \in RunIds :
    /\ Len(addOrder[k]) = 2
    /\ gone[k] = {addOrder[k][2]}
    /\ queueIds(chatRunSessions, k) = <<addOrder[k][1]>>

\* ------------------------------------------------------ malformed deltas
\* the notification with its messageIndex set to 0
atIndexZero(payload) ==
  [f \in (DOMAIN payload) \cup {"messageIndex"} |->
     IF f = "messageIndex" THEN 0 ELSE payload[f]]

\* the text of the message with index i, None when there is none
textOf(msgs, i) ==
  IF \E j \in 1..Len(msgs) : msgs[j].index = i
    THEN msgs[CHOOSE j \in 1..Len(msgs) : msgs[j].index = i].text
    ELSE None

\* C27: malformed deltas are tolerated.  A delta without messageIndex does
\* what the same delta with messageIndex 0 does, and when it passes the guard
\* with a text that text is afterwards the text of message 0; a delta whose
\* message carries no text leaves the client state unchanged; and a delta for
\* index i changes the text of no message with another index, adds none and
\* removes none.
C27_MalformedDeltaTolerated ==
  \A payload \in {p \in AllChatEvents : p.state = "delta"} :
    \A now \in timesRead(clientState, payload) :
      \A st \in {handleChatEvent(clientState, payload, now)} :
        /\ "messageIndex" \notin DOMAIN payload =>
             /\ st = handleChatEvent(clientState, atIndexZero(payload), now)
             /\ (~ignored(clientState, payload) /\ "message" \in DOMAIN payload) =>
                  textOf(st.chatStreamMessages, 0) = payload.message.content[1].text
        /\ "message" \notin DOMAIN payload => st = clientState
        /\ \A i \in Indexes :
             ("messageIndex" \in DOMAIN payload /\ payload.messageIndex = i) =>
               \A j \in (Indexes \cup {0}) \ {i} :
                 textOf(st.chatStreamMessages, j) = textOf(chatStreamMessages, j)
        /\ "messageIndex" \notin DOMAIN payload =>
             \A j \in Indexes \ {0} :
               textOf(st.chatStreamMessages, j) = textOf(chatStreamMessages, j)

\* C27 witness: a delta without messageIndex has just replaced the text of
\* message 0 while message 2 kept its own, different text
C27_Witness ==
  /\ lastOp.op = "replaced"
  /\ "messageIndex" \notin DOMAIN lastOp.evt[1]
  /\ Len(chatStreamMessages) = 2
  /\ chatStreamMessages[1].index = 0
  /\ chatStreamMessages[1].text = lastOp.evt[1].message.content[1].text
  /\ chatStreamMessages[2].index = 2
  /\ chatStreamMessages[2].text # chatStreamMessages[1].text

\* ------------------------------------------------------- the idle state
\* C28: the idle invariant of the reconciler.  In every state reached by
\* sends and delivered notifications, late ones included, a client with no
\* active run (chatRunId null) has no StreamingMessage, a tools-running
\* counter of 0 and no current tool.
C28_IdleInvariant ==
  chatRunId = None =>
    /\ chatStreamMessages = <<>>
    /\ chatToolsRunning = 0
    /\ chatCurrentTool = None

\* --------------------------------------------------------- abort isolation
\* the chat notification state an event of a run with a session key is due
chatStateDue(evt) ==
  IF evt.stream = "assistant" THEN "delta"
  ELSE IF evt.stream = "tool" /\ evt.data.phase = "start" THEN "tool-start"
  ELSE IF evt.stream = "tool" /\ evt.data.phase = "result" THEN "tool-end"
  ELSE IF evt.stream = "lifecycle" /\ evt.data.phase = "end" THEN "final"
  ELSE IF evt.stream = "lifecycle" /\ evt.data.phase = "error" THEN "error"
  ELSE None

\* C29: abort isolation.  A marker stored under the clientRunId b of a run B
\* suppresses only B: for an event attributed to another run A (another
\* clientRunId, its context another id than b; A may be the link queued ahead
\* of B under the same context) that has no marker under its clientRunId or
\* its internal run id, the router makes the calls and leaves the registry
\* and the message indexes it would have without b's marker, which itself
\* stays; and when A has a session key, a text delta, a tool start or result
\* and a terminal event each produce their chat notification under A's
\* clientRunId.
C29_AbortIsolation ==
  \A b \in abortedRuns \cap ClientRunIds :
    \A r \in RunIds :
      \A evt \in AgentEvents(r, MapGet(agentRunSeq, r, 0) + 1, {"Hello"}) :
        \A vi \in verboseInputs(evt) :
          LET A == resolveRun(chatRunSessions, evt)
          IN (A.clientRunId # b /\ A.clientRunId \notin abortedRuns /\ r \notin abortedRuns) =>
               \A marked \in {agentEventHandler(chatRunSessions, messageIndexByRun,
                                                abortedRuns, agentRunSeq, evt,
                                                vi.runVerbose, vi.lookup)} :
                 \A unmarked \in {agentEventHandler(chatRunSessions, messageIndexByRun,
                                                    abortedRuns \ {b}, agentRunSeq, evt,
                                                    vi.runVerbose, vi.lookup)} :
                   /\ marked.broadcasts = unmarked.broadcasts
                   /\ marked.nodeSends = unmarked.nodeSends
                   /\ marked.registry = unmarked.registry
                   /\ marked.messageIndexByRun = unmarked.messageIndexByRun
                   /\ marked.clearedRuns = unmarked.clearedRuns
                   /\ marked.abortedRuns = unmarked.abortedRuns \cup {b}
                   /\ (A.sessionKey # None /\ chatStateDue(evt) # None) =>
                        \E i \in 1..Len(marked.broadcasts) :
                          /\ isChat(marked.broadcasts[i])
                          /\ marked.broadcasts[i].payload.state = chatStateDue(evt)
                          /\ marked.broadcasts[i].payload.runId = A.clientRunId
                          /\ marked.broadcasts[i].payload.sessionKey = A.sessionKey

\* C29 witness: c1, queued behind c2 under the same context, carries a
\* marker; the terminal event of the context was attributed to c2, which has
\* none, and produced c2's final while c1 and its marker stayed
C29_Witness ==
  /\ lastOp.op = "event"
  /\ lastEvt.stream = "lifecycle"
  /\ lastEvt.data.phase = "end"
  /\ lastOp.run.clientRunId = "c2"
  /\ ~lastOp.aborted
  /\ "c1" \in abortedRuns
  /\ queueIds(chatRunSessions, lastEvt.runId) = <<"c1">>
  /\ \E i \in 1..Len(broadcasts) :
       /\ isChat(broadcasts[i])
       /\ broadcasts[i].payload.state = "final"
       /\ broadcasts[i].payload.runId = "c2"

====
